---- MODULE Spec2Model ----
(***************************************************************************)
(* A model of the vr-rogue level generators.                               *)
(*                                                                         *)
(* Two lineages of the generator are modelled side by side:                *)
(*   "tile": LevelGenerator over an Array2D of Tile (Empty/Floor/Wall/     *)
(*           Door) with RectangularRoom and TemplateRoom,                  *)
(*   "hall": PreDungeonGen over a PreDungeon (Array2D of booleans) with    *)
(*           RectangleRoom and ray-cast hallways.                          *)
(* A run of generate is a sequence of steps: the construction of the grid, *)
(* then chooseRoom and addRoom once per attempt, then the return.  Two     *)
(* runs (RunIds) exist so that runs started from one seed can be compared. *)
(***************************************************************************)
EXTENDS Integers, Sequences, FiniteSets, TLC

(***************************************************************************)
(* Bounds of the model.                                                    *)
(***************************************************************************)
\* largest grid height and width
MaxDim == 6
\* largest attempt budget (maxRooms)
MaxRoomsBound == 3
\* LCG seeds 0..MaxSeed
MaxSeed == 1
\* largest maxHallwayLength
MaxHallway == 2
\* height and width of the grids given to direct calls of a function
FnDim == 4
\* largest number of non-Empty (floor) cells of a grid given to a direct call
MaxMarks == 2
\* width of the two-row predungeons hallrays are cast along
StripLen == 9
\* the seeds -SeedSpan..SeedSpan are given to the LCG called directly, and
\* MaxDraws draws are made from each
SeedSpan == 700
MaxDraws == 3
\* largest height and width given to a RectangleRoomGenerator called directly
MaxSide == 5
\* largest weight, and largest number of weights, given to discreteSample
MaxWeight == 5
MaxWeights == 3

VARIABLES
  \* configuration (constructor arguments; fixed during a run)
  lineage,      \* "tile" or "hall": which generator class is used
  overlapRule,  \* RectangularRoom.canPlaceAt variant: "FloorOrDoor" / "FloorOnly"
  height,       \* LevelGenerator.height / PreDungeonGen.height
  width,        \* LevelGenerator.width / PreDungeonGen.width
  maxRooms,     \* LevelGenerator.maxRooms / PreDungeonGen.maxRooms
  roomGens,     \* sequence of room generators
  weights,      \* sequence of weights, one per generator
  rngKind,      \* "any": an arbitrary RandomNumberGenerator, "lcg": the LCG
  \* state of each run of generate (functions of the run id)
  pc,           \* "idle", "choose", "add", "return", "done", "failed"
  tiles,        \* the Array2D being built (tiles / predungeon.walkable)
  seed,         \* LCG.seed
  i,            \* number of attempts completed (the loop counter of generate)
  room,         \* the Room returned by the last chooseRoom
  \* observations of each run (history; not read by the program)
  prevTiles,    \* the Array2D as it was before the last addRoom
  validPositions, \* validPositions of the last addRoom
  position,     \* the position chosen by the last addRoom (<<>> if none)
  added,        \* result of the last addRoom: "none", "true", "false"
  forced,       \* forceValid of the last addRoom
  nChoose,      \* calls of chooseRoom so far
  nAdd,         \* calls of addRoom so far
  nNext,        \* calls of rng.next() so far
  nextBefore,   \* nNext as it was before the last addRoom
  oob,          \* coordinates outside the grid that were passed to get/set
  \* a direct call of one function of the program, outside generate
  call          \* the function called, its arguments and what it returned

cfgVars == <<lineage, overlapRule, height, width, maxRooms, roomGens, weights, rngKind>>
runVars == <<pc, tiles, seed, i, room>>
obsVars == <<prevTiles, validPositions, position, added, forced, nChoose, nAdd,
             nNext, nextBefore, oob>>
vars == <<cfgVars, runVars, obsVars, call>>

RunIds == {1, 2}

(***************************************************************************)
(* Array2D                                                                 *)
(***************************************************************************)
\* new Array2D(height, width, defaultElement)
Array2D(h, w, defaultElement) ==
  [height |-> h, width |-> w, data |-> [ix \in 0..(h * w - 1) |-> defaultElement]]

\* Array2D.rc2ix: column-major linear index
rc2ix(arr, row, column) == column * arr.height + row

\* Array2D.inBounds
inBounds(arr, y, x) == 0 <= y /\ y < arr.height /\ 0 <= x /\ x < arr.width

\* whether data[rc2ix(row, col)] is an element of the data array; an index
\* outside the array reads as undefined
HasIx(arr, row, col) == rc2ix(arr, row, col) \in DOMAIN arr.data

Undefined == "undefined"

\* Array2D.get
get(arr, row, col) ==
  IF HasIx(arr, row, col) THEN arr.data[rc2ix(arr, row, col)] ELSE Undefined

\* Array2D.set; an assignment past the end of a JavaScript array adds the element
set(arr, row, col, e) ==
  LET ix == rc2ix(arr, row, col)
  IN [arr EXCEPT !.data = [k \in (DOMAIN arr.data) \cup {ix} |->
                               IF k = ix THEN e ELSE arr.data[k]]]

RECURSIVE setAll(_, _, _)
\* set(c.y, c.x, e) for every c of the sequence cs, in order
setAll(arr, cs, e) ==
  IF cs = <<>> THEN arr
  ELSE setAll(set(arr, Head(cs).y, Head(cs).x, e), Tail(cs), e)

(***************************************************************************)
(* Rectangle                                                               *)
(***************************************************************************)
Rectangle(y, x, h, w) == [y |-> y, x |-> x, height |-> h, width |-> w]

\* floor(a / 2) for any integer a
FloorHalf(a) == IF a >= 0 THEN a \div 2 ELSE -((1 - a) \div 2)

\* Rectangle.enlarge with a slip: the origin is not moved, so the rectangle
\* shrinks towards its top-left corner instead of its centre
enlarge_Lopsided(rect, heightDelta, widthDelta) ==
  Rectangle(rect.y, rect.x, rect.height + heightDelta, rect.width + widthDelta)

\* Rectangle.enlarge
enlarge(rect, heightDelta, widthDelta) ==
  Rectangle(rect.y - FloorHalf(heightDelta), rect.x - FloorHalf(widthDelta),
            rect.height + heightDelta, rect.width + widthDelta)

\* Rectangle.areaCoords: row-major sequence of the coordinates
areaCoords(rect) ==
  IF rect.height <= 0 \/ rect.width <= 0 THEN <<>>
  ELSE [k \in 1..(rect.height * rect.width) |->
          [y |-> rect.y + ((k - 1) \div rect.width),
           x |-> rect.x + ((k - 1) % rect.width)]]

\* the sequence lo, lo+1, ..., hi (empty when lo > hi)
Upto(lo, hi) == IF lo > hi THEN <<>> ELSE [k \in 1..(hi - lo + 1) |-> lo + k - 1]
\* the sequence hi, hi-1, ..., lo (empty when lo > hi)
Downto(hi, lo) == IF lo > hi THEN <<>> ELSE [k \in 1..(hi - lo + 1) |-> hi - k + 1]

\* perimeterCoords with a slip: the bottom edge is walked from left to right
perimeterCoords_BottomForward(rect, skip) ==
  LET miny == rect.y
      maxy == rect.y + rect.height - 1
      minx == rect.x
      maxx == rect.x + rect.width - 1
      xsUp == Upto(minx + skip, maxx - skip)
      ysUp == Upto(miny + skip, maxy - skip)
      ysDn == Downto(maxy - skip, miny + skip)
  IN    [k \in 1..Len(xsUp) |-> [y |-> miny, x |-> xsUp[k]]]
     \o [k \in 1..Len(ysUp) |-> [y |-> ysUp[k], x |-> maxx]]
     \o [k \in 1..Len(xsUp) |-> [y |-> maxy, x |-> xsUp[k]]]
     \o [k \in 1..Len(ysDn) |-> [y |-> ysDn[k], x |-> minx]]

\* Rectangle.perimeterCoords(skip): clockwise, each edge trimmed by skip
perimeterCoords(rect, skip) ==
  LET miny == rect.y
      maxy == rect.y + rect.height - 1
      minx == rect.x
      maxx == rect.x + rect.width - 1
      xsUp == Upto(minx + skip, maxx - skip)
      ysUp == Upto(miny + skip, maxy - skip)
      xsDn == Downto(maxx - skip, minx + skip)
      ysDn == Downto(maxy - skip, miny + skip)
  IN    [k \in 1..Len(xsUp) |-> [y |-> miny, x |-> xsUp[k]]]
     \o [k \in 1..Len(ysUp) |-> [y |-> ysUp[k], x |-> maxx]]
     \o [k \in 1..Len(xsDn) |-> [y |-> maxy, x |-> xsDn[k]]]
     \o [k \in 1..Len(ysDn) |-> [y |-> ysDn[k], x |-> minx]]

\* the elements of a sequence
Range(s) == {s[k] : k \in DOMAIN s}

\* the subsequence of s of the elements that belong to keep
RECURSIVE SelectCoords(_, _)
SelectCoords(s, keep) ==
  IF s = <<>> THEN <<>>
  ELSE (IF Head(s) \in keep THEN <<Head(s)>> ELSE <<>>) \o SelectCoords(Tail(s), keep)

(***************************************************************************)
(* RandomNumberGenerator                                                   *)
(*                                                                         *)
(* A value v/2^31 of [0,1) is represented by its numerator v, 0 <= v < 2^31.*)
(* The arithmetic below never leaves 0..2^31-1.                            *)
(***************************************************************************)
\* LCG.next: m - 1, where m = 2147483648
LcgMminus1 == 2147483647
\* LCG.next: a
LcgA == 1664525
\* LCG.next: c
LcgC == 1013904223

\* (a + b) % m for 0 <= a, b < m
AddMod(a, b) ==
  IF a > LcgMminus1 - b THEN a - (LcgMminus1 - b) - 1 ELSE a + b

RECURSIVE MulMod(_, _)
\* (a * b) % m for 0 <= a < m and b >= 0, by doubling
MulMod(a, b) ==
  IF b = 0 THEN 0
  ELSE LET rest == MulMod(AddMod(a, a), b \div 2)
       IN IF b % 2 = 1 THEN AddMod(a, rest) ELSE rest

\* the seed after LCG.next(): (seed * a + c) % m, for a seed -m < s < m.  The
\* % of JavaScript is the remainder of the truncated division and has the
\* sign of seed * a + c, which is negative when seed * a < -c
LCGnext(s) ==
  IF s >= 0 THEN AddMod(MulMod(s, LcgA), LcgC)
  ELSE LET q == MulMod(-s, LcgA)
       IN IF (-s) <= LcgC \div LcgA THEN LcgC - q
          ELSE IF q >= LcgC THEN -(q - LcgC)
          ELSE -(((q - LcgC) + LcgMminus1) + 1)

RECURSIVE LCGdraws(_, _)
\* the values returned by n successive calls of LCG.next() from seed s
LCGdraws(s, n) ==
  IF n = 0 THEN <<>> ELSE <<LCGnext(s)>> \o LCGdraws(LCGnext(s), n - 1)

RECURSIVE LCGadvance(_, _)
\* the seed after n calls of LCG.next() from seed s
LCGadvance(s, n) == IF n = 0 THEN s ELSE LCGadvance(LCGnext(s), n - 1)

\* Math.floor(u * n) for a draw u = v / 2^31 and an integer 0 <= n < 2^15
ScaleFloor(v, n) ==
  LET hi == v \div 65536
      lo == v % 65536
  IN (hi * n + ((lo * n) \div 65536)) \div 32768

\* whether u * n is an integer, for a draw u = v / 2^31
ScaleExact(v, n) ==
  LET hi == v \div 65536
      lo == v % 65536
  IN (lo * n) % 65536 = 0 /\ (hi * n + ((lo * n) \div 65536)) % 32768 = 0

\* Math.ceil(u * n) for a draw u = v / 2^31 and an integer 0 <= n < 2^15
ScaleCeil(v, n) == ScaleFloor(v, n) + (IF ScaleExact(v, n) THEN 0 ELSE 1)

\* the least draw v with v / 2^31 >= k / (2 * n), for 0 <= k < 2 * n
HalfStep(k, n) ==
  LET q == k \div n
      r == k % n
      whole == r * (1073741824 \div n) + ((r * (1073741824 % n)) \div n)
      exact == (r * (1073741824 % n)) % n = 0
  IN q * 1073741824 + whole + (IF exact THEN 0 ELSE 1)

\* Draws an arbitrary RandomNumberGenerator may return where the caller
\* multiplies the draw by n: for every k < 2n the least draw u with
\* u * n >= k / 2, so that every value of floor(u * n), of ceil(u * n) and
\* of the comparisons of u * n with an integer occurs.
DrawsFor(n) == IF n <= 0 THEN {0} ELSE {HalfStep(k, n) : k \in 0..(2 * n - 1)}

\* Draws an arbitrary RandomNumberGenerator may return where the caller takes
\* floor(u * n) only: for every k < n the least draw u with u * n >= k
ChoiceDraws(n) == IF n <= 0 THEN {0} ELSE {HalfStep(2 * k, n) : k \in 0..(n - 1)}

\* Utils.randomChoice: arr[Math.floor(rng.next() * arr.length)], with the
\* draw u given (sequences are 1-based)
randomChoice(u, arr) == arr[ScaleFloor(u, Len(arr)) + 1]

RECURSIVE SumTo(_, _)
\* weights[1] + ... + weights[k]
SumTo(ws, k) == IF k = 0 THEN 0 ELSE ws[k] + SumTo(ws, k - 1)

\* Utils.discreteSample: the first (0-based) index at which the running sum
\* of the weights is >= p = u * total.  It fails when the weights are empty
\* or all zero, and when no running sum reaches p: the sentinel -1
discreteSample(u, ws) ==
  LET total == SumTo(ws, Len(ws))
      hits == {k \in 1..Len(ws) : SumTo(ws, k) >= ScaleCeil(u, total)}
  IN IF ws = <<>> \/ (\A k \in DOMAIN ws : ws[k] = 0) \/ hits = {} THEN -1
     ELSE (CHOOSE k \in hits : \A j \in hits : k <= j) - 1

(***************************************************************************)
(* Tile lineage: Tile, isValidDoor, RectangularRoom, TemplateRoom          *)
(***************************************************************************)
Tile == {"Empty", "Floor", "Wall", "Door"}

\* a coordinate record, as yielded by areaCoords and perimeterCoords
Coord(y, x) == [y |-> y, x |-> x]

\* the coordinates of cs that lie outside the grid of arr
OutOfBounds(arr, cs) == {c \in cs : ~inBounds(arr, c.y, c.x)}

\* the elements of s up to and including the first one that belongs to stop
RECURSIVE PrefixThrough(_, _)
PrefixThrough(s, stop) ==
  IF s = <<>> THEN {}
  ELSE IF Head(s) \in stop THEN {Head(s)}
  ELSE {Head(s)} \cup PrefixThrough(Tail(s), stop)

\* isValidDoor with a slip: a neighbour that holds any tile validates the door
isValidDoor_AnyTile(t, y, x) ==
  \/ (y > 0 /\ get(t, y - 1, x) # "Empty")
  \/ (y < t.height - 1 /\ get(t, y + 1, x) # "Empty")
  \/ (x > 0 /\ get(t, y, x - 1) # "Empty")
  \/ (x < t.width - 1 /\ get(t, y, x + 1) # "Empty")

\* LevelGeneration.isValidDoor: some in-bounds orthogonal neighbour is Floor
isValidDoor(t, y, x) ==
  \/ (y > 0 /\ get(t, y - 1, x) = "Floor")
  \/ (y < t.height - 1 /\ get(t, y + 1, x) = "Floor")
  \/ (x > 0 /\ get(t, y, x - 1) = "Floor")
  \/ (x < t.width - 1 /\ get(t, y, x + 1) = "Floor")

\* the coordinates isValidDoor passes to get (the || chain stops at the
\* first neighbour that is Floor)
isValidDoorReads(t, y, x) ==
  LET up    == y > 0 /\ get(t, y - 1, x) = "Floor"
      down  == y < t.height - 1 /\ get(t, y + 1, x) = "Floor"
      left  == x > 0 /\ get(t, y, x - 1) = "Floor"
  IN    (IF y > 0 THEN {Coord(y - 1, x)} ELSE {})
   \cup (IF ~up /\ y < t.height - 1 THEN {Coord(y + 1, x)} ELSE {})
   \cup (IF ~up /\ ~down /\ x > 0 THEN {Coord(y, x - 1)} ELSE {})
   \cup (IF ~up /\ ~down /\ ~left /\ x < t.width - 1 THEN {Coord(y, x + 1)} ELSE {})

\* the cells of cs that are valid doors in t
ValidDoorsIn(t, cs) == {c \in Range(cs) : isValidDoor(t, c.y, c.x)}

\* the overlap test with a slip: Door is refused, Floor is not
Blocking_DoorOnly(rule) == {"Door"}

\* the Tile values RectangularRoom.canPlaceAt refuses to overlap: Floor and
\* Door (RectangularRoom.ts:107) or Floor alone (RectangularRoom.ts:193)
Blocking(rule) == IF rule = "FloorOrDoor" THEN {"Floor", "Door"} ELSE {"Floor"}

\* RectangularRoom.canPlaceAt
RectangularRoom_canPlaceAt(rule, rm, t, py, px) ==
  LET rect == Rectangle(py, px, rm.height, rm.width)
  IN /\ \A c \in Range(areaCoords(rect)) : get(t, c.y, c.x) \notin Blocking(rule)
     /\ \E c \in Range(perimeterCoords(rect, 1)) : isValidDoor(t, c.y, c.x)

\* the coordinates RectangularRoom.canPlaceAt passes to get
RectangularRoom_canPlaceAtReads(rule, rm, t, py, px) ==
  LET rect == Rectangle(py, px, rm.height, rm.width)
      area == areaCoords(rect)
      hit == {c \in Range(area) : get(t, c.y, c.x) \in Blocking(rule)}
      doorReads == UNION {isValidDoorReads(t, c.y, c.x) :
                            c \in Range(perimeterCoords(rect, 1))}
  IN IF rule = "FloorOrDoor"
     THEN PrefixThrough(area, hit) \cup (IF hit = {} THEN doorReads ELSE {})
     ELSE doorReads \cup PrefixThrough(area, hit)

\* RectangularRoom.placeAt, the array after the walls are placed
RectangularRoom_walled(rm, t, py, px) ==
  setAll(t, perimeterCoords(Rectangle(py, px, rm.height, rm.width), 0), "Wall")

\* validDoors with a slip: every non-corner perimeter cell is taken as a
\* valid door
RectangularRoom_validDoors_Unchecked(rm, t, py, px) ==
  perimeterCoords(Rectangle(py, px, rm.height, rm.width), 1)

\* RectangularRoom.placeAt: validDoors, in perimeter order
RectangularRoom_validDoors(rm, t, py, px) ==
  LET walled == RectangularRoom_walled(rm, t, py, px)
      perim == perimeterCoords(Rectangle(py, px, rm.height, rm.width), 1)
  IN SelectCoords(perim, ValidDoorsIn(walled, perim))

\* RectangularRoom.placeAt with a slip: the walls are placed after the door,
\* over it
RectangularRoom_placeAt_WallsLast(rm, u, t, py, px) ==
  LET rect == Rectangle(py, px, rm.height, rm.width)
      validDoors == RectangularRoom_validDoors(rm, t, py, px)
      doored == IF Len(validDoors) > 0
                THEN LET door == randomChoice(u, validDoors)
                     IN set(t, door.y, door.x, "Door")
                ELSE t
  IN setAll(RectangularRoom_walled(rm, doored, py, px),
            areaCoords(enlarge(rect, -2, -2)), "Floor")

\* RectangularRoom.placeAt with the draw u used if a door is chosen
RectangularRoom_placeAt(rm, u, t, py, px) ==
  LET rect == Rectangle(py, px, rm.height, rm.width)
      walled == RectangularRoom_walled(rm, t, py, px)
      validDoors == RectangularRoom_validDoors(rm, t, py, px)
      doored == IF Len(validDoors) > 0
                THEN LET door == randomChoice(u, validDoors)
                     IN set(walled, door.y, door.x, "Door")
                ELSE walled
  IN setAll(doored, areaCoords(enlarge(rect, -2, -2)), "Floor")

\* the coordinates RectangularRoom.placeAt passes to get and set
RectangularRoom_placeAtAccess(rm, t, py, px) ==
  LET rect == Rectangle(py, px, rm.height, rm.width)
      walled == RectangularRoom_walled(rm, t, py, px)
  IN    Range(perimeterCoords(rect, 0))
   \cup UNION {isValidDoorReads(walled, c.y, c.x) : c \in Range(perimeterCoords(rect, 1))}
   \cup Range(areaCoords(enlarge(rect, -2, -2)))

\* parseTemplateRoom (TemplateRoom.ts:146-164): lines is the blueprint split
\* into rows, each row a sequence of characters; '#' is Wall, '.' Floor,
\* '=' Door and any other character is left Empty
parseChar(ch) ==
  IF ch = "#" THEN "Wall" ELSE IF ch = "." THEN "Floor"
  ELSE IF ch = "=" THEN "Door" ELSE "Empty"

parseTemplateRoom(lines) ==
  LET h == Len(lines)
      w == Len(lines[1])
  IN [height |-> h, width |-> w,
      data |-> [ix \in 0..(h * w - 1) |->
                  LET y == ix % h
                      x == ix \div h
                  IN IF x + 1 \in DOMAIN lines[y + 1]
                     THEN parseChar(lines[y + 1][x + 1]) ELSE "Empty"]]

\* TemplateRoom.canPlaceAt
TemplateRoom_canPlaceAt(rm, t, py, px) ==
  LET roomRect == areaCoords(Rectangle(0, 0, rm.height, rm.width))
  IN /\ \A c \in Range(roomRect) :
          get(rm.blueprint, c.y, c.x) # "Empty"
            => get(t, c.y + py, c.x + px) \notin {"Floor", "Door"}
     /\ \E c \in Range(roomRect) :
          /\ get(rm.blueprint, c.y, c.x) = "Door"
          /\ isValidDoor(t, c.y + py, c.x + px)

\* the coordinates TemplateRoom.canPlaceAt passes to get on the level
TemplateRoom_canPlaceAtReads(rm, t, py, px) ==
  LET roomRect == areaCoords(Rectangle(0, 0, rm.height, rm.width))
      hit == {c \in Range(roomRect) :
                /\ get(rm.blueprint, c.y, c.x) # "Empty"
                /\ get(t, c.y + py, c.x + px) \in {"Floor", "Door"}}
      seen == PrefixThrough(roomRect, hit) \ hit
  IN    {Coord(c.y + py, c.x + px) : c \in PrefixThrough(roomRect, hit)}
   \cup UNION {isValidDoorReads(t, c.y + py, c.x + px) :
                 c \in {d \in seen : get(rm.blueprint, d.y, d.x) = "Door"}}

RECURSIVE TemplateRoom_wallsAndDoors(_, _, _, _, _)
\* TemplateRoom.placeAt, first loop over the cells cs of the blueprint: a
\* Wall is placed; a Door is placed if it is a valid door in the array as it
\* is when the cell is reached, and a Wall otherwise
TemplateRoom_wallsAndDoors(rm, cs, t, py, px) ==
  IF cs = <<>> THEN t
  ELSE LET c == Head(cs)
           roomTile == get(rm.blueprint, c.y, c.x)
           t1 == IF roomTile = "Wall" THEN set(t, c.y + py, c.x + px, "Wall")
                 ELSE IF roomTile = "Door"
                 THEN (IF isValidDoor(t, c.y + py, c.x + px)
                       THEN set(t, c.y + py, c.x + px, "Door")
                       ELSE set(t, c.y + py, c.x + px, "Wall"))
                 ELSE t
       IN TemplateRoom_wallsAndDoors(rm, Tail(cs), t1, py, px)

\* TemplateRoom.placeAt
TemplateRoom_placeAt(rm, t, py, px) ==
  LET roomRect == areaCoords(Rectangle(0, 0, rm.height, rm.width))
      first == TemplateRoom_wallsAndDoors(rm, roomRect, t, py, px)
      floors == SelectCoords(roomRect,
                  {c \in Range(roomRect) : get(rm.blueprint, c.y, c.x) = "Floor"})
  IN setAll(first, [k \in 1..Len(floors) |-> Coord(floors[k].y + py, floors[k].x + px)],
            "Floor")

RECURSIVE TemplateRoom_doorReads(_, _, _, _, _)
\* the coordinates the first loop of TemplateRoom.placeAt passes to get
TemplateRoom_doorReads(rm, cs, t, py, px) ==
  IF cs = <<>> THEN {}
  ELSE LET c == Head(cs)
           here == IF get(rm.blueprint, c.y, c.x) = "Door"
                   THEN isValidDoorReads(t, c.y + py, c.x + px) ELSE {}
       IN here \cup TemplateRoom_doorReads(rm, Tail(cs),
                      TemplateRoom_wallsAndDoors(rm, <<c>>, t, py, px), py, px)

\* the coordinates TemplateRoom.placeAt passes to get and set on the level
TemplateRoom_placeAtAccess(rm, t, py, px) ==
  LET roomRect == areaCoords(Rectangle(0, 0, rm.height, rm.width))
  IN    {Coord(c.y + py, c.x + px) :
           c \in {d \in Range(roomRect) : get(rm.blueprint, d.y, d.x) # "Empty"}}
   \cup TemplateRoom_doorReads(rm, roomRect, t, py, px)

(***************************************************************************)
(* Hallway lineage: PreDungeon, hallrays, RectangleRoom                    *)
(* A PreDungeon is its walkable array, an Array2D of booleans.             *)
(***************************************************************************)
\* new PreDungeon(height, width): completely filled with walls
PreDungeon(h, w) == Array2D(h, w, FALSE)

\* PreDungeon.isFloor as a condition: walkable.get(y, x), where undefined
\* (an index outside the data array) is falsy
isFloor(pd, y, x) == HasIx(pd, y, x) /\ pd.data[rc2ix(pd, y, x)]

\* PreDungeon.isWall
isWall(pd, y, x) == ~isFloor(pd, y, x)

\* PreDungeon.setFloor
setFloor(pd, y, x) == set(pd, y, x, TRUE)

\* PreDungeon.setWall
setWall(pd, y, x) == set(pd, y, x, FALSE)

\* PreDungeon.isFloorAdjacent
isFloorAdjacent(pd, y, x) ==
  \/ (y > 0 /\ isFloor(pd, y - 1, x))
  \/ (y < pd.height /\ isFloor(pd, y + 1, x))
  \/ (x > 0 /\ isFloor(pd, y, x - 1))
  \/ (x < pd.width - 1 /\ isFloor(pd, y, x + 1))

\* the coordinates isFloorAdjacent passes to isFloor (the || chain stops at
\* the first neighbour that reads as floor)
isFloorAdjacentReads(pd, y, x) ==
  LET up    == y > 0 /\ isFloor(pd, y - 1, x)
      down  == y < pd.height /\ isFloor(pd, y + 1, x)
      left  == x > 0 /\ isFloor(pd, y, x - 1)
  IN    (IF y > 0 THEN {Coord(y - 1, x)} ELSE {})
   \cup (IF ~up /\ y < pd.height THEN {Coord(y + 1, x)} ELSE {})
   \cup (IF ~up /\ ~down /\ x > 0 THEN {Coord(y, x - 1)} ELSE {})
   \cup (IF ~up /\ ~down /\ ~left /\ x < pd.width - 1 THEN {Coord(y, x + 1)} ELSE {})

\* the value standing for JavaScript's Infinity (larger than any length)
Infinity == 1000000

RECURSIVE hallrayLength(_, _, _, _)
\* Hallways.hallrayLength
hallrayLength(pd, y, x, dir) ==
  IF ~inBounds(pd, y, x) THEN Infinity
  ELSE IF isFloorAdjacent(pd, y, x) THEN 0
  ELSE LET rest == hallrayLength(pd, y + dir.y, x + dir.x, dir)
       IN IF rest = Infinity THEN Infinity ELSE rest + 1

RECURSIVE hallrayLengthReads(_, _, _, _)
\* the coordinates hallrayLength passes to isFloor
hallrayLengthReads(pd, y, x, dir) ==
  IF ~inBounds(pd, y, x) THEN {}
  ELSE IF isFloorAdjacent(pd, y, x) THEN isFloorAdjacentReads(pd, y, x)
  ELSE isFloorAdjacentReads(pd, y, x)
         \cup hallrayLengthReads(pd, y + dir.y, x + dir.x, dir)

\* Hallways.isValidHallray
isValidHallray(pd, y, x, dir, maxLength) == hallrayLength(pd, y, x, dir) < maxLength

\* the cells (y,x), (y,x)+dir, ..., (y,x)+length*dir
hallrayCells(y, x, dir, length) ==
  [k \in 1..(length + 1) |-> Coord(y + (k - 1) * dir.y, x + (k - 1) * dir.x)]

\* Hallways.placeHallray
placeHallray(pd, y, x, dir, length) == setAll(pd, hallrayCells(y, x, dir, length), TRUE)

\* RectangleRoom.getHallwayDir
getHallwayDir(rect, c) ==
  IF c.y = rect.y THEN [y |-> -1, x |-> 0]
  ELSE IF c.y = rect.y + rect.height - 1 THEN [y |-> 1, x |-> 0]
  ELSE IF c.x = rect.x THEN [y |-> 0, x |-> -1]
  ELSE [y |-> 0, x |-> 1]

\* the non-corner perimeter cells from which a valid hallray starts
validHallwayStarts(rm, pd, py, px) ==
  LET rect == Rectangle(py, px, rm.height, rm.width)
      perim == perimeterCoords(rect, 1)
  IN SelectCoords(perim,
       {c \in Range(perim) :
          isValidHallray(pd, c.y, c.x, getHallwayDir(rect, c), rm.maxHallwayLength)})

\* RectangleRoom.canPlaceAt with a slip: the hallway requirement is left out
RectangleRoom_canPlaceAt_NoHallway(rm, pd, py, px) ==
  \A c \in Range(areaCoords(Rectangle(py, px, rm.height, rm.width))) :
    ~isFloor(pd, c.y, c.x)

\* RectangleRoom.canPlaceAt
RectangleRoom_canPlaceAt(rm, pd, py, px) ==
  /\ \A c \in Range(areaCoords(Rectangle(py, px, rm.height, rm.width))) :
       ~isFloor(pd, c.y, c.x)
  /\ Len(validHallwayStarts(rm, pd, py, px)) > 0

\* the coordinates RectangleRoom.canPlaceAt and placeAt pass to isFloor when
\* they test the hallrays of the perimeter
RectangleRoom_hallrayReads(rm, pd, py, px) ==
  LET rect == Rectangle(py, px, rm.height, rm.width)
  IN UNION {hallrayLengthReads(pd, c.y, c.x, getHallwayDir(rect, c)) :
              c \in Range(perimeterCoords(rect, 1))}

\* the coordinates RectangleRoom.canPlaceAt passes to isFloor
RectangleRoom_canPlaceAtReads(rm, pd, py, px) ==
  LET area == areaCoords(Rectangle(py, px, rm.height, rm.width))
      hit == {c \in Range(area) : isFloor(pd, c.y, c.x)}
  IN PrefixThrough(area, hit)
       \cup (IF hit = {} THEN RectangleRoom_hallrayReads(rm, pd, py, px) ELSE {})

\* RectangleRoom.placeAt with the draw u used if a hallway is opened
RectangleRoom_placeAt(rm, u, pd, py, px) ==
  LET rect == Rectangle(py, px, rm.height, rm.width)
      starts == validHallwayStarts(rm, pd, py, px)
      halled == IF Len(starts) > 0
                THEN LET c == randomChoice(u, starts)
                         dir == getHallwayDir(rect, c)
                     IN placeHallray(pd, c.y, c.x, dir, hallrayLength(pd, c.y, c.x, dir))
                ELSE pd
  IN setAll(halled, areaCoords(enlarge(rect, -2, -2)), TRUE)

\* the coordinates RectangleRoom.placeAt passes to isFloor and setFloor
RectangleRoom_placeAtAccess(rm, u, pd, py, px) ==
  LET rect == Rectangle(py, px, rm.height, rm.width)
      starts == validHallwayStarts(rm, pd, py, px)
      hall == IF Len(starts) > 0
              THEN LET c == randomChoice(u, starts)
                       dir == getHallwayDir(rect, c)
                   IN hallrayLengthReads(pd, c.y, c.x, dir)
                        \cup Range(hallrayCells(c.y, c.x, dir,
                                                hallrayLength(pd, c.y, c.x, dir)))
              ELSE {}
  IN RectangleRoom_hallrayReads(rm, pd, py, px) \cup hall
       \cup Range(areaCoords(enlarge(rect, -2, -2)))

(***************************************************************************)
(* Template rooms over TemplateTile: external and internal doors           *)
(* (LevelGeneration/TemplateRoom.ts:1-132), hallway starts                 *)
(* (PreDungeon/TemplateRoom.ts:1-161).  A level tile made by TILES is      *)
(* named by its component: Wall, Floor (Floor, Walkable), Door (Door,      *)
(* Walkable); new Tile() has no component and is Empty.                    *)
(***************************************************************************)
\* the characters parseTemplateRoom reads for the cells of its array: lines is
\* the blueprint split into rows, each row a sequence of characters;
\* lines[y][x] outside a row is undefined and parses as the default case
ParsedLines(lines) ==
  LET h == Len(lines)
      w == Len(lines[1])
  IN [height |-> h, width |-> w,
      data |-> [ix \in 0..(h * w - 1) |->
                  LET y == ix % h
                      x == ix \div h
                  IN IF x + 1 \in DOMAIN lines[y + 1]
                     THEN lines[y + 1][x + 1] ELSE ""]]

\* parseTemplateCharacter of the door templates
DoorTemplate_parseTemplateCharacter(c) ==
  IF c = "#" THEN "Wall"
  ELSE IF c = "." THEN "Floor"
  ELSE IF c = "E" THEN "ExternalDoor"
  ELSE IF c = "I" THEN "InternalDoor"
  ELSE "Empty"

\* parseTemplateRoom of the door templates: the TemplateTile array
DoorTemplate_parseTemplateRoom(lines) ==
  LET chars == ParsedLines(lines)
  IN [height |-> chars.height, width |-> chars.width,
      data |-> [ix \in DOMAIN chars.data |->
                  DoorTemplate_parseTemplateCharacter(chars.data[ix])]]

\* TemplateRoom.canPlaceAt of the door templates
DoorTemplate_canPlaceAt(rm, t, py, px) ==
  LET rect == areaCoords(Rectangle(0, 0, rm.height, rm.width))
  IN /\ \A c \in Range(rect) :
          ~(/\ get(rm.blueprint, c.y, c.x) # "Empty"
            /\ get(t, c.y + py, c.x + px) \in {"Floor", "Door"})
     /\ \E c \in Range(rect) :
          /\ get(rm.blueprint, c.y, c.x) = "ExternalDoor"
          /\ isValidDoor(t, c.y + py, c.x + px)

RECURSIVE DoorTemplate_externalDoors_NoStub(_, _, _, _, _)
\* the first loop of placeAt with a slip: an external door that is not valid
\* is skipped instead of walled
DoorTemplate_externalDoors_NoStub(rm, cs, t, py, px) ==
  IF cs = <<>> THEN t
  ELSE LET c == Head(cs)
           ly == c.y + py
           lx == c.x + px
           t1 == IF get(rm.blueprint, c.y, c.x) = "ExternalDoor" /\ isValidDoor(t, ly, lx)
                 THEN set(t, ly, lx, "Door")
                 ELSE t
       IN DoorTemplate_externalDoors_NoStub(rm, Tail(cs), t1, py, px)

RECURSIVE DoorTemplate_externalDoors(_, _, _, _, _)
\* TemplateRoom.placeAt of the door templates, first loop over the cells cs:
\* an external door becomes a Door if it is a valid door in the array as it is
\* when the cell is reached, and a Wall otherwise
DoorTemplate_externalDoors(rm, cs, t, py, px) ==
  IF cs = <<>> THEN t
  ELSE LET c == Head(cs)
           ly == c.y + py
           lx == c.x + px
           t1 == IF get(rm.blueprint, c.y, c.x) = "ExternalDoor"
                 THEN (IF isValidDoor(t, ly, lx) THEN set(t, ly, lx, "Door")
                       ELSE set(t, ly, lx, "Wall"))
                 ELSE t
       IN DoorTemplate_externalDoors(rm, Tail(cs), t1, py, px)

\* the tile the second loop of placeAt places for a TemplateTile
DoorTemplate_remainingTile(tt) ==
  IF tt = "Floor" THEN "Floor"
  ELSE IF tt = "InternalDoor" THEN "Door"
  ELSE "Wall"

RECURSIVE DoorTemplate_remaining(_, _, _, _, _)
\* TemplateRoom.placeAt of the door templates, second loop: Floor, InternalDoor
\* and Wall cells are placed
DoorTemplate_remaining(rm, cs, t, py, px) ==
  IF cs = <<>> THEN t
  ELSE LET c == Head(cs)
           tt == get(rm.blueprint, c.y, c.x)
           t1 == IF tt \in {"Floor", "InternalDoor", "Wall"}
                 THEN set(t, c.y + py, c.x + px, DoorTemplate_remainingTile(tt))
                 ELSE t
       IN DoorTemplate_remaining(rm, Tail(cs), t1, py, px)

\* TemplateRoom.placeAt of the door templates
DoorTemplate_placeAt(rm, t, py, px) ==
  LET rect == areaCoords(Rectangle(0, 0, rm.height, rm.width))
  IN DoorTemplate_remaining(rm, rect,
       DoorTemplate_externalDoors(rm, rect, t, py, px), py, px)

\* parseTemplateCharacter of the hallway templates
HallTemplate_parseTemplateCharacter(c) ==
  IF c = "#" THEN "Wall"
  ELSE IF c = "." THEN "Floor"
  ELSE IF c = "^" THEN "HallwayNorth"
  ELSE IF c = "v" THEN "HallwaySouth"
  ELSE IF c = "<" THEN "HallwayWest"
  ELSE IF c = ">" THEN "HallwayEast"
  ELSE "Empty"

\* parseTemplateRoom of the hallway templates: the TemplateTile array
HallTemplate_parseTemplateRoom(lines) ==
  LET chars == ParsedLines(lines)
  IN [height |-> chars.height, width |-> chars.width,
      data |-> [ix \in DOMAIN chars.data |->
                  HallTemplate_parseTemplateCharacter(chars.data[ix])]]

\* getHallwayDir(t) of the hallway templates
HallTemplate_getHallwayDir(tt) ==
  IF tt = "HallwayNorth" THEN [y |-> -1, x |-> 0]
  ELSE IF tt = "HallwaySouth" THEN [y |-> 1, x |-> 0]
  ELSE IF tt = "HallwayWest" THEN [y |-> 0, x |-> -1]
  ELSE [y |-> 0, x |-> 1]

\* isHallway(t)
isHallway(tt) == tt \in {"HallwayNorth", "HallwaySouth", "HallwayWest", "HallwayEast"}

\* TemplateRoom.canPlaceAt of the hallway templates
HallTemplate_canPlaceAt(rm, pd, py, px) ==
  LET rect == areaCoords(Rectangle(0, 0, rm.height, rm.width))
  IN /\ \A c \in Range(rect) :
          ~(/\ get(rm.blueprint, c.y, c.x) # "Empty"
            /\ isFloor(pd, c.y + py, c.x + px))
     /\ \E c \in Range(rect) :
          /\ isHallway(get(rm.blueprint, c.y, c.x))
          /\ isValidHallray(pd, c.y + py, c.x + px,
                            HallTemplate_getHallwayDir(get(rm.blueprint, c.y, c.x)),
                            rm.maxHallwayLength)

RECURSIVE HallTemplate_hallways(_, _, _, _, _)
\* TemplateRoom.placeAt of the hallway templates, first loop over the cells
\* cs: a hallray is placed from each hallway cell whose hallray is valid in
\* the predungeon as it is when the cell is reached
HallTemplate_hallways(rm, cs, pd, py, px) ==
  IF cs = <<>> THEN pd
  ELSE LET c == Head(cs)
           ly == c.y + py
           lx == c.x + px
           tt == get(rm.blueprint, c.y, c.x)
           dir == HallTemplate_getHallwayDir(tt)
           pd1 == IF isHallway(tt) /\ isValidHallray(pd, ly, lx, dir, rm.maxHallwayLength)
                  THEN placeHallray(pd, ly, lx, dir, hallrayLength(pd, ly, lx, dir))
                  ELSE pd
       IN HallTemplate_hallways(rm, Tail(cs), pd1, py, px)

RECURSIVE HallTemplate_opened(_, _, _, _, _)
\* the hallway cells among cs from which the first loop of placeAt places a
\* hallray
HallTemplate_opened(rm, cs, pd, py, px) ==
  IF cs = <<>> THEN {}
  ELSE LET c == Head(cs)
           tt == get(rm.blueprint, c.y, c.x)
           here == IF /\ isHallway(tt)
                      /\ isValidHallray(pd, c.y + py, c.x + px,
                                        HallTemplate_getHallwayDir(tt), rm.maxHallwayLength)
                   THEN {c} ELSE {}
       IN here \cup HallTemplate_opened(rm, Tail(cs),
                      HallTemplate_hallways(rm, <<c>>, pd, py, px), py, px)

\* TemplateRoom.placeAt of the hallway templates
HallTemplate_placeAt(rm, pd, py, px) ==
  LET rect == areaCoords(Rectangle(0, 0, rm.height, rm.width))
      floors == SelectCoords(rect,
                  {c \in Range(rect) : get(rm.blueprint, c.y, c.x) = "Floor"})
  IN setAll(HallTemplate_hallways(rm, rect, pd, py, px),
            [k \in 1..Len(floors) |-> Coord(floors[k].y + py, floors[k].x + px)],
            TRUE)

(***************************************************************************)
(* Rooms and room generators                                               *)
(***************************************************************************)
NoBlueprint == Array2D(0, 0, "Empty")
NoArray == Array2D(0, 0, "Empty")

\* a Room: RectangularRoom / RectangleRoom (kind "rect") or TemplateRoom
Room(kind, h, w, maxHallwayLength, blueprint) ==
  [kind |-> kind, height |-> h, width |-> w,
   maxHallwayLength |-> maxHallwayLength, blueprint |-> blueprint]

NoRoom == Room("none", 0, 0, 0, NoBlueprint)

\* RectangleRoomGenerator(minHeight, maxHeight, minWidth, maxWidth[, maxHallwayLength])
RectGen(minHeight, maxHeight, minWidth, maxWidth, maxHallwayLength) ==
  [kind |-> "rect", minHeight |-> minHeight, maxHeight |-> maxHeight,
   minWidth |-> minWidth, maxWidth |-> maxWidth,
   maxHallwayLength |-> maxHallwayLength, blueprint |-> NoBlueprint]

\* the RoomGen () => tRoom for a parsed template
TemplateGen(blueprint) ==
  [kind |-> "template", minHeight |-> blueprint.height, maxHeight |-> blueprint.height,
   minWidth |-> blueprint.width, maxWidth |-> blueprint.width,
   maxHallwayLength |-> 0, blueprint |-> blueprint]

\* the rounding of RectangleRoomGenerator: Math.floor in the version whose
\* canPlaceAt refuses Floor and Door and in the hallway lineage, Math.ceil in
\* the version whose canPlaceAt refuses Floor alone
RoundDraw(rule, u, n) == IF rule = "FloorOnly" THEN ScaleCeil(u, n) ELSE ScaleFloor(u, n)

\* the Room a RectangleRoomGenerator returns for the draws u1 and u2
RectangleRoomGenerator(rule, gen, u1, u2) ==
  Room("rect",
       RoundDraw(rule, u1, gen.maxHeight - gen.minHeight) + gen.minHeight,
       RoundDraw(rule, u2, gen.maxWidth - gen.minWidth) + gen.minWidth,
       gen.maxHallwayLength, NoBlueprint)

\* Room.canPlaceAt of the room rm, for the lineage lin
canPlaceAt(lin, rule, rm, t, y, x) ==
  IF lin = "hall" THEN RectangleRoom_canPlaceAt(rm, t, y, x)
  ELSE IF rm.kind = "template" THEN TemplateRoom_canPlaceAt(rm, t, y, x)
  ELSE RectangularRoom_canPlaceAt(rule, rm, t, y, x)

\* the coordinates canPlaceAt passes to the grid
canPlaceAtReads(lin, rule, rm, t, y, x) ==
  IF lin = "hall" THEN RectangleRoom_canPlaceAtReads(rm, t, y, x)
  ELSE IF rm.kind = "template" THEN TemplateRoom_canPlaceAtReads(rm, t, y, x)
  ELSE RectangularRoom_canPlaceAtReads(rule, rm, t, y, x)

\* the length of the array from which Room.placeAt makes its random choice
\* (0: placeAt does not call rng.next())
placeAtChoices(lin, rm, t, y, x) ==
  IF lin = "hall" THEN Len(validHallwayStarts(rm, t, y, x))
  ELSE IF rm.kind = "template" THEN 0
  ELSE Len(RectangularRoom_validDoors(rm, t, y, x))

\* Room.placeAt of the room rm with the draw u
placeAt(lin, rm, u, t, y, x) ==
  IF lin = "hall" THEN RectangleRoom_placeAt(rm, u, t, y, x)
  ELSE IF rm.kind = "template" THEN TemplateRoom_placeAt(rm, t, y, x)
  ELSE RectangularRoom_placeAt(rm, u, t, y, x)

\* the coordinates placeAt passes to the grid
placeAtAccess(lin, rm, u, t, y, x) ==
  IF lin = "hall" THEN RectangleRoom_placeAtAccess(rm, u, t, y, x)
  ELSE IF rm.kind = "template" THEN TemplateRoom_placeAtAccess(rm, t, y, x)
  ELSE RectangularRoom_placeAtAccess(rm, t, y, x)

(***************************************************************************)
(* LevelGenerator / PreDungeonGen                                          *)
(***************************************************************************)
\* the constructor's default: equal weights when none are given
DefaultWeights(gens, given) ==
  IF given.given THEN given.value ELSE [k \in 1..Len(gens) |-> 1]

\* the offsets addRoom slides the room over, in the order of its loops:
\* LevelGenerator.addRoom:  y + r.height() < tiles.height, x + r.width() < tiles.width
\* PreDungeonGen.addRoom:   areaCoords of Rectangle(height - r.height(), width - r.width())
Offsets(t, rm) == areaCoords(Rectangle(0, 0, t.height - rm.height, t.width - rm.width))

\* validPositions with a slip: forceValid is taken as true for every room
ValidPositions_AlwaysForced(lin, rule, rm, t, forceValid) ==
  Offsets(t, rm)

\* addRoom: validPositions
ValidPositions(lin, rule, rm, t, forceValid) ==
  LET offs == Offsets(t, rm)
  IN SelectCoords(offs, {c \in Range(offs) :
                           forceValid \/ canPlaceAt(lin, rule, rm, t, c.y, c.x)})

\* the coordinates the search loop of addRoom passes to the grid
SearchReads(lin, rule, rm, t, forceValid) ==
  IF forceValid THEN {}
  ELSE UNION {canPlaceAtReads(lin, rule, rm, t, c.y, c.x) : c \in Range(Offsets(t, rm))}

(***************************************************************************)
(* Configurations                                                          *)
(***************************************************************************)
\* a 3x3 template with a door on each side
CrossRoom == parseTemplateRoom(<< <<"#", "=", "#">>,
                                  <<"=", ".", "=">>,
                                  <<"#", "=", "#">> >>)

NoWeights == [given |-> FALSE, value |-> <<>>]
Weights(ws) == [given |-> TRUE, value |-> ws]

\* the generator lists and weights a LevelGenerator is constructed with
TileConfigs ==
  { [gens |-> <<RectGen(3, 5, 3, 5, 0)>>, weights |-> NoWeights],
    [gens |-> <<RectGen(2, 4, 2, 4, 0)>>, weights |-> NoWeights],
    [gens |-> <<RectGen(3, 4, 3, 4, 0), TemplateGen(CrossRoom)>>,
     weights |-> Weights(<<3, 1>>)] }

\* the generator lists and weights a PreDungeonGen is constructed with
HallConfigs ==
  { [gens |-> <<RectGen(3, 5, 3, 5, m)>>, weights |-> NoWeights] : m \in 1..MaxHallway }

\* grid heights and widths: the smallest grid that holds a room, and the largest
Dims == {4, MaxDim}

\* no function has been called directly
NoCall == [fn |-> "none"]

\* generate has not been called on the generator yet
Idle ==
  /\ pc = [r \in RunIds |-> "idle"]
  /\ tiles = [r \in RunIds |-> NoArray]
  /\ i = [r \in RunIds |-> 0]
  /\ room = [r \in RunIds |-> NoRoom]
  /\ prevTiles = [r \in RunIds |-> NoArray]
  /\ validPositions = [r \in RunIds |-> <<>>]
  /\ position = [r \in RunIds |-> <<>>]
  /\ added = [r \in RunIds |-> "none"]
  /\ forced = [r \in RunIds |-> FALSE]
  /\ nChoose = [r \in RunIds |-> 0]
  /\ nAdd = [r \in RunIds |-> 0]
  /\ nNext = [r \in RunIds |-> 0]
  /\ nextBefore = [r \in RunIds |-> 0]
  /\ oob = [r \in RunIds |-> {}]
  /\ call = NoCall

Init ==
  /\ lineage \in {"tile", "hall"}
  /\ overlapRule \in (IF lineage = "tile" THEN {"FloorOrDoor", "FloorOnly"}
                      ELSE {"FloorOrDoor"})
  /\ height \in Dims
  /\ width \in Dims
  /\ maxRooms \in 0..MaxRoomsBound
  /\ \E c \in (IF lineage = "tile" THEN TileConfigs ELSE HallConfigs) :
       /\ roomGens = c.gens
       /\ weights = DefaultWeights(c.gens, c.weights)
  /\ rngKind \in {"any", "lcg"}
  /\ \E s \in 0..MaxSeed :
       /\ rngKind = "any" => s = 0
       /\ seed = [r \in RunIds |-> s]
  /\ Idle

(***************************************************************************)
(* The steps of generate                                                   *)
(***************************************************************************)
\* the LCG state run r reads: generate hands the rng it was called with to
\* chooseRoom, addRoom, placeAt and addRandomStartEnd, and the seed is a
\* field of that instance
SeedOf(r) == seed[r]

\* a randomChoice that takes its number from Math.random() and not from the
\* rng it is handed: any value of [0,1), whatever the seed
DrawChoice_MathRandom(r, k, n) == ChoiceDraws(n)

\* the values the k-th call of rng.next() of a step of run r may return to
\* randomChoice(rng, arr) on an array of length n: the next number of the
\* rng handed down from generate
DrawChoice(r, k, n) ==
  IF rngKind = "lcg" THEN {LCGdraws(SeedOf(r), k)[k]} ELSE ChoiceDraws(n)

\* the rng after n calls of next() in a step of run r
Drawn(r, n) ==
  /\ seed' = [seed EXCEPT ![r] = IF rngKind = "lcg" THEN LCGadvance(SeedOf(r), n)
                                 ELSE seed[r]]
  /\ nNext' = [nNext EXCEPT ![r] = @ + n]

\* the grid generate starts from:
\* LevelGenerator.generate: Array2D.comprehension(this.height, this.width, ...)
\* PreDungeonGen.generate:  new PreDungeon(this.width, this.height)
\* (comprehension sets no element when the height or the width is not
\* positive, and the elements of the data array stay undefined)
NewGrid(lin, h, w) ==
  IF lin = "hall" THEN PreDungeon(w, h)
  ELSE IF h > 0 /\ w > 0 THEN Array2D(h, w, "Empty")
  ELSE Array2D(h, w, Undefined)

\* generate is entered: the grid is created; new Array(height * width) of
\* the Array2D constructor throws a RangeError for a negative length, and
\* generate fails with it.  generate is synchronous, so a second run starts
\* after the first has returned; it is made with the LCG only, to compare two
\* runs from one seed
Generate(r) ==
  /\ pc[r] = "idle"
  /\ r = 1 \/ (rngKind = "lcg" /\ pc[1] = "done")
  /\ IF height * width < 0
     THEN pc' = [pc EXCEPT ![r] = "failed"] /\ UNCHANGED tiles
     ELSE /\ tiles' = [tiles EXCEPT ![r] = NewGrid(lineage, height, width)]
          /\ pc' = [pc EXCEPT ![r] = "choose"]
  /\ UNCHANGED <<cfgVars, seed, i, room, obsVars, call>>

\* chooseRoom: the generator index discreteSample returns for the draw u
chooseIndex(u) == discreteSample(u, weights)

\* chooseRoom(rng) with the draws us: the room and the number of draws used
\* (a RectangleRoomGenerator draws the height and the width; a template
\* generator draws nothing).  this.roomGens[ix] is undefined when ix is not
\* an index of roomGens, and the call of it throws a TypeError
chooseRoom(us) ==
  LET ix == chooseIndex(us[1])
  IN IF ix + 1 \notin DOMAIN roomGens
     THEN [threw |-> TRUE, room |-> NoRoom, used |-> 1]
     ELSE LET gen == roomGens[ix + 1]
          IN IF gen.kind = "rect"
             THEN [threw |-> FALSE,
                   room |-> RectangleRoomGenerator(overlapRule, gen, us[2], us[3]),
                   used |-> 3]
             ELSE [threw |-> FALSE,
                   room |-> Room("template", gen.blueprint.height, gen.blueprint.width,
                                 0, gen.blueprint),
                   used |-> 1]

\* the draws a call of chooseRoom by run r may receive
ChooseDraws(r) ==
  IF rngKind = "lcg" THEN {LCGdraws(SeedOf(r), 3)}
  ELSE {<<u, u1, u2>> :
          u \in DrawsFor(SumTo(weights, Len(weights))),
          u1 \in {0} \cup UNION {DrawsFor(g.maxHeight - g.minHeight) : g \in Range(roomGens)},
          u2 \in {0} \cup UNION {DrawsFor(g.maxWidth - g.minWidth) : g \in Range(roomGens)}}

\* chooseRoom(rng); generate fails with the error chooseRoom throws
ChooseRoom(r) ==
  /\ pc[r] = "choose"
  /\ \E c \in {chooseRoom(us) : us \in ChooseDraws(r)} :
       /\ room' = [room EXCEPT ![r] = IF c.threw THEN @ ELSE c.room]
       /\ Drawn(r, c.used)
       /\ pc' = [pc EXCEPT ![r] = IF c.threw THEN "failed" ELSE "add"]
  /\ nChoose' = [nChoose EXCEPT ![r] = @ + 1]
  /\ UNCHANGED <<cfgVars, tiles, i, prevTiles, validPositions, position, added,
                 forced, nAdd, nextBefore, oob, call>>

\* where generate goes after the attempt that makes the counter n:
\* for (let i = 1; i < this.maxRooms; i++)
AfterAttempt(n) == IF n < maxRooms THEN "choose" ELSE "return"

\* addRoom(rng, tiles, room, forceValid), followed by the loop test of generate;
\* the first room is added with forceValid = true
AddRoom(r) ==
  /\ pc[r] = "add"
  /\ LET t == tiles[r]
         rm == room[r]
         forceValid == (i[r] = 0)
         vp == ValidPositions(lineage, overlapRule, rm, t, forceValid)
         search == SearchReads(lineage, overlapRule, rm, t, forceValid)
     IN /\ prevTiles' = [prevTiles EXCEPT ![r] = t]
        /\ validPositions' = [validPositions EXCEPT ![r] = vp]
        /\ forced' = [forced EXCEPT ![r] = forceValid]
        /\ nextBefore' = [nextBefore EXCEPT ![r] = nNext[r]]
        /\ IF Len(vp) = 0
           THEN /\ added' = [added EXCEPT ![r] = "false"]
                /\ position' = [position EXCEPT ![r] = <<>>]
                /\ oob' = [oob EXCEPT ![r] = @ \cup OutOfBounds(t, search)]
                /\ Drawn(r, 0)
                /\ UNCHANGED tiles
           ELSE \E u1 \in DrawChoice(r, 1, Len(vp)) :
                  LET pos == randomChoice(u1, vp)
                      n == placeAtChoices(lineage, rm, t, pos.y, pos.x)
                  IN \E u2 \in DrawChoice(r, 2, n) :
                       /\ tiles' = [tiles EXCEPT ![r] =
                                      placeAt(lineage, rm, u2, t, pos.y, pos.x)]
                       /\ added' = [added EXCEPT ![r] = "true"]
                       /\ position' = [position EXCEPT ![r] = <<pos>>]
                       /\ oob' = [oob EXCEPT ![r] = @ \cup OutOfBounds(t,
                             search \cup placeAtAccess(lineage, rm, u2, t, pos.y, pos.x))]
                       /\ Drawn(r, IF n > 0 THEN 2 ELSE 1)
  /\ i' = [i EXCEPT ![r] = @ + 1]
  /\ nAdd' = [nAdd EXCEPT ![r] = @ + 1]
  /\ pc' = [pc EXCEPT ![r] = AfterAttempt(i[r] + 1)]
  /\ UNCHANGED <<cfgVars, room, nChoose, call>>

\* TILES.makeStart() and TILES.makeEnd(): the tiles that mark the start and
\* the end of the level; each is a walkable floor tile that carries the mark
makeStart == "Start"
makeEnd == "End"

\* tile.hasComponent(WalkableComponent): Floor and Door tiles are walkable,
\* and so are the floor tiles that carry a mark
hasWalkableComponent(tile) == tile \in {"Floor", "Door", makeStart, makeEnd}

\* the walkables array of addRandomStartEnd: the coordinates of the walkable
\* tiles, in the row-major order of areaCoords
walkablesOf(t) ==
  SelectSeq(areaCoords(Rectangle(0, 0, t.height, t.width)),
            LAMBDA c : hasWalkableComponent(get(t, c.y, c.x)))

\* LevelGenerator.addRandomStartEnd with the two draws u1 and u2 given.  A
\* randomChoice from an empty array is undefined, and reading .y of undefined
\* throws: with no walkable cell the first tiles.set throws, with one
\* walkable cell the first tiles.set has run when the second one throws.
addRandomStartEnd(u1, u2, t) ==
  LET walkables == walkablesOf(t)
  IN IF walkables = <<>> THEN [threw |-> TRUE, tiles |-> t]
     ELSE LET start == randomChoice(u1, walkables)
              rest == SelectSeq(walkables, LAMBDA c : c # start)
              marked == set(t, start.y, start.x, makeStart)
          IN IF rest = <<>> THEN [threw |-> TRUE, tiles |-> marked]
             ELSE LET end == randomChoice(u2, rest)
                  IN [threw |-> FALSE, tiles |-> set(marked, end.y, end.x, makeEnd)]

\* the end of generate.  LevelGenerator.generate calls addRandomStartEnd and
\* returns the level, or fails with the error addRandomStartEnd throws (both
\* calls of rng.next() are made before the error); PreDungeonGen.generate
\* returns the predungeon as it is
Return(r) ==
  /\ pc[r] = "return"
  /\ IF lineage = "hall"
     THEN /\ pc' = [pc EXCEPT ![r] = "done"]
          /\ UNCHANGED <<tiles, seed, nNext>>
     ELSE LET n == Len(walkablesOf(tiles[r]))
          IN \E u1 \in DrawChoice(r, 1, n), u2 \in DrawChoice(r, 2, n - 1) :
               LET res == addRandomStartEnd(u1, u2, tiles[r])
               IN /\ tiles' = [tiles EXCEPT ![r] = res.tiles]
                  /\ pc' = [pc EXCEPT ![r] = IF res.threw THEN "failed" ELSE "done"]
                  /\ Drawn(r, 2)
  /\ UNCHANGED <<cfgVars, i, room, prevTiles, validPositions, position, added,
                 forced, nChoose, nAdd, nextBefore, oob, call>>

Next == \E r \in RunIds : Generate(r) \/ ChooseRoom(r) \/ AddRoom(r) \/ Return(r)

Spec == Init /\ [][Next]_vars

(***************************************************************************)
(* Properties                                                              *)
(***************************************************************************)
\* the coordinates of the grid of arr
Cells(arr) == {Coord(y, x) : y \in 0..(arr.height - 1), x \in 0..(arr.width - 1)}

\* the walkable cells of a grid: Floor and Door tiles, or the floor of a PreDungeon
WalkableCells(lin, arr) ==
  IF lin = "hall" THEN {c \in Cells(arr) : isFloor(arr, c.y, c.x)}
  ELSE {c \in Cells(arr) : hasWalkableComponent(get(arr, c.y, c.x))}

\* the four orthogonal neighbours of c
Neighbours(c) ==
  {Coord(c.y - 1, c.x), Coord(c.y + 1, c.x), Coord(c.y, c.x - 1), Coord(c.y, c.x + 1)}

RECURSIVE Flood(_, _)
\* the cells of S reachable from the cells of seen by 4-directional steps in S
Flood(seen, S) ==
  LET more == {c \in S \ seen : Neighbours(c) \cap seen # {}}
  IN IF more = {} THEN seen ELSE Flood(seen \cup more, S)

\* every cell of S is reachable from every other one through S
Connected(S) == S = {} \/ Flood({CHOOSE c \in S : TRUE}, S) = S

\* the runs that have entered generate
Started == {r \in RunIds : pc[r] # "idle"}

\* every generator makes rectangular rooms of height and width >= 3
RoomsAtLeast3 ==
  \A k \in DOMAIN roomGens :
    roomGens[k].kind = "rect" /\ roomGens[k].minHeight >= 3 /\ roomGens[k].minWidth >= 3

\* C1: in the tile lineage with RectangularRoom generators of height and
\* width >= 3, after every room placement and at the end of generate, all
\* Floor and Door cells are connected by 4-directional steps through Floor
\* and Door cells.
C1_TileConnected ==
  \A r \in Started :
    (lineage = "tile" /\ RoomsAtLeast3) => Connected(WalkableCells("tile", tiles[r]))

\* a finished tile run with three rooms placed, one of them through a door
C1_Witness ==
  /\ lineage = "tile" /\ RoomsAtLeast3 /\ pc[1] = "done" /\ nAdd[1] = 3
  /\ added[1] = "true"
  /\ Cardinality({c \in Cells(tiles[1]) : get(tiles[1], c.y, c.x) = "Door"}) >= 2

\* C2: in the hallway lineage with RectangleRoom generators of height and
\* width >= 3, after every room placement and at the end of generate, all
\* floor cells are connected by 4-directional steps through floor cells.
C2_HallConnected ==
  \A r \in Started :
    (lineage = "hall" /\ RoomsAtLeast3) => Connected(WalkableCells("hall", tiles[r]))

\* a finished hallway run in which the last room was placed after the first
C2_Witness ==
  /\ lineage = "hall" /\ RoomsAtLeast3 /\ pc[1] = "done" /\ nAdd[1] = 3
  /\ added[1] = "true"
  /\ Cardinality(WalkableCells("hall", tiles[1]))
       > Cardinality(WalkableCells("hall", prevTiles[1]))
  /\ WalkableCells("hall", prevTiles[1]) # {}

\* the runs whose last step was an addRoom
JustAdded == {r \in RunIds : nAdd[r] > 0 /\ pc[r] \in {"choose", "return"}}

\* C3: a cell that is Floor or Door before a placement at an offset accepted
\* by canPlaceAt is still Floor or Door after it.
C3_WalkableOnlyGrows ==
  \A r \in JustAdded :
    (lineage = "tile" /\ added[r] = "true" /\ ~forced[r])
      => WalkableCells("tile", prevTiles[r]) \subseteq WalkableCells("tile", tiles[r])

C5_InBounds == \A r \in RunIds : oob[r] = {}

\* C6: the grid generate returns has the configured height and width.
C6_Dimensions ==
  \A r \in RunIds :
    pc[r] = "done" => (tiles[r].height = height /\ tiles[r].width = width)

\* the offsets (y,x) with 0 <= y <= H - h and 0 <= x <= W - w
FittingOffsets(t, rm) ==
  {Coord(y, x) : y \in 0..(t.height - rm.height), x \in 0..(t.width - rm.width)}

\* C7: the candidate offsets of addRoom are exactly the offsets at which the
\* room fits in the grid and canPlaceAt holds (all of them when forced), and
\* the room is placed at one of them.
C7_CandidateOffsets ==
  \A r \in JustAdded :
    /\ Range(validPositions[r]) =
         {c \in FittingOffsets(prevTiles[r], room[r]) :
            forced[r] \/ canPlaceAt(lineage, overlapRule, room[r], prevTiles[r], c.y, c.x)}
    /\ Range(position[r]) \subseteq Range(validPositions[r])

\* C8: when room #0 fits in the grid (3 <= h <= H and 3 <= w <= W) it is
\* placed and the grid has a walkable cell.
C8_NeverEmpty ==
  \A r \in JustAdded :
    ( /\ nAdd[r] = 1
      /\ 3 <= room[r].height /\ room[r].height <= tiles[r].height
      /\ 3 <= room[r].width /\ room[r].width <= tiles[r].width )
      => (added[r] = "true" /\ WalkableCells(lineage, tiles[r]) # {})

\* C9: generate makes exactly maxRooms attempts, each one chooseRoom followed
\* by one addRoom.
C9_ExactlyMaxRooms ==
  \A r \in RunIds :
    pc[r] = "done" => (nChoose[r] = maxRooms /\ nAdd[r] = maxRooms)

\* no offset of the search of the last addRoom satisfied canPlaceAt
NoValidOffset(r) ==
  \A c \in Range(Offsets(prevTiles[r], room[r])) :
    ~canPlaceAt(lineage, overlapRule, room[r], prevTiles[r], c.y, c.x)

\* C10: when no offset satisfies canPlaceAt for a room that is not forced,
\* addRoom returns false, changes no cell and draws nothing from the rng, and
\* generate goes on with the next attempt or returns.
C10_PlacementMiss ==
  \A r \in JustAdded :
    (~forced[r] /\ NoValidOffset(r))
      => /\ added[r] = "false"
         /\ tiles[r] = prevTiles[r]
         /\ nNext[r] = nextBefore[r]
         /\ position[r] = <<>>
         /\ pc[r] \in {AfterAttempt(i[r]), "done"}
         /\ nChoose[r] = nAdd[r]

\* a miss of the second room, after which the third room is chosen
C10_Witness ==
  /\ nAdd[1] = 2 /\ ~forced[1] /\ NoValidOffset(1) /\ pc[1] = "choose"
  /\ added[1] = "false" /\ WalkableCells(lineage, tiles[1]) # {}

(***************************************************************************)
(* Direct calls of the functions of the program on arbitrary grids         *)
(***************************************************************************)
RECURSIVE Marks(_, _)
\* the sets of at most k indices of ixs
Marks(k, ixs) ==
  IF k = 0 THEN {{}}
  ELSE LET P == Marks(k - 1, ixs) IN P \cup {S \cup {c} : S \in P, c \in ixs}

\* the Array2D<Tile> of height h and width w with at most MaxMarks cells
\* that are not Empty
TileGrids(h, w) ==
  UNION {{[height |-> h, width |-> w,
           data |-> [ix \in 0..(h * w - 1) |-> IF ix \in S THEN f[ix] ELSE "Empty"]] :
            f \in [S -> {"Floor", "Wall", "Door"}]} :
         S \in Marks(MaxMarks, 0..(h * w - 1))}

\* the sizes <<height, width>> of the rectangular rooms given to direct calls
RoomSizes == {<<3, 3>>, <<2, 3>>, <<3, FnDim>>}

\* a direct call of RectangularRoom.canPlaceAt, which only reads the grid
Call_RectangularRoom_canPlaceAt ==
  /\ call.fn = "none"
  /\ \E rule \in {"FloorOrDoor", "FloorOnly"}, t \in TileGrids(FnDim, FnDim),
        sz \in RoomSizes :
       \E py \in 0..(FnDim - sz[1]), px \in 0..(FnDim - sz[2]) :
         LET rm == Room("rect", sz[1], sz[2], 0, NoBlueprint)
         IN call' = [fn |-> "RectangularRoom.canPlaceAt", rule |-> rule, grid |-> t,
                     room |-> rm, y |-> py, x |-> px,
                     out |-> RectangularRoom_canPlaceAt(rule, rm, t, py, px),
                     after |-> t]
  /\ UNCHANGED <<cfgVars, runVars, obsVars>>

\* a direct call of RectangularRoom.placeAt at an offset canPlaceAt accepts,
\* for a room of height and width >= 3
Call_RectangularRoom_placeAt ==
  /\ call.fn = "none"
  /\ \E rule \in {"FloorOrDoor", "FloorOnly"}, t \in TileGrids(FnDim, FnDim),
        sz \in {z \in RoomSizes : z[1] >= 3 /\ z[2] >= 3} :
       \E py \in 0..(FnDim - sz[1]), px \in 0..(FnDim - sz[2]) :
         LET rm == Room("rect", sz[1], sz[2], 0, NoBlueprint)
         IN /\ RectangularRoom_canPlaceAt(rule, rm, t, py, px)
            /\ \E u \in ChoiceDraws(Len(RectangularRoom_validDoors(rm, t, py, px))) :
                 call' = [fn |-> "RectangularRoom.placeAt", rule |-> rule, grid |-> t,
                          room |-> rm, y |-> py, x |-> px, out |-> TRUE,
                          after |-> RectangularRoom_placeAt(rm, u, t, py, px)]
  /\ UNCHANGED <<cfgVars, runVars, obsVars>>

\* the state in which direct calls are made: no run of generate is under way
FnInit ==
  /\ Init
  /\ lineage = "tile" /\ overlapRule = "FloorOrDoor"
  /\ height = MaxDim /\ width = MaxDim /\ maxRooms = 0
  /\ Len(roomGens) = 2 /\ rngKind = "any"

RectNext == Call_RectangularRoom_canPlaceAt \/ Call_RectangularRoom_placeAt

\* direct calls of the methods of RectangularRoom
SpecRect == FnInit /\ [][RectNext]_vars

\* the cells of the h x w rectangle at (y, x)
RectCells(y, x, h, w) == {Coord(a, b) : a \in y..(y + h - 1), b \in x..(x + w - 1)}

\* the perimeter cells of the rectangle that are not corners
NonCornerPerimeter(y, x, h, w) ==
  {c \in RectCells(y, x, h, w) :
     \/ (c.y \in {y, y + h - 1} /\ x < c.x /\ c.x < x + w - 1)
     \/ (c.x \in {x, x + w - 1} /\ y < c.y /\ c.y < y + h - 1)}

\* c has an orthogonal neighbour inside the grid t that is Floor
NextToFloor(t, c) ==
  \E n \in Neighbours(c) : inBounds(t, n.y, n.x) /\ get(t, n.y, n.x) = "Floor"

\* C11: RectangularRoom.canPlaceAt returns true exactly when no cell of the
\* room's rectangle is Floor or Door and some non-corner perimeter cell has an
\* in-bounds orthogonal neighbour that is Floor, and it leaves the grid as it was.
C11_CanPlaceAtIff ==
  call.fn = "RectangularRoom.canPlaceAt" =>
    LET h == call.room.height
        w == call.room.width
    IN /\ call.out <=>
            /\ \A c \in RectCells(call.y, call.x, h, w) :
                 get(call.grid, c.y, c.x) \notin {"Floor", "Door"}
            /\ \E c \in NonCornerPerimeter(call.y, call.x, h, w) :
                 NextToFloor(call.grid, c)
       /\ call.after = call.grid

\* the cells of the rectangle that are not on its perimeter
Interior(y, x, h, w) == RectCells(y + 1, x + 1, h - 2, w - 2)

\* C12: after RectangularRoom.placeAt at an accepted offset (room >= 3 x 3)
\* exactly one cell of the rectangle is Door, it is a non-corner perimeter
\* cell that was next to a Floor cell before the call, the other perimeter
\* cells are Wall, the interior cells are Floor and every cell outside the
\* rectangle is as before.
C12_PlaceAtResult ==
  call.fn = "RectangularRoom.placeAt" =>
    LET h == call.room.height
        w == call.room.width
        R == RectCells(call.y, call.x, h, w)
        inner == Interior(call.y, call.x, h, w)
        doors == {c \in R : get(call.after, c.y, c.x) = "Door"}
    IN /\ Cardinality(doors) = 1
       /\ \A c \in doors : /\ c \in NonCornerPerimeter(call.y, call.x, h, w)
                           /\ NextToFloor(call.grid, c)
       /\ \A c \in (R \ inner) \ doors : get(call.after, c.y, c.x) = "Wall"
       /\ \A c \in inner : get(call.after, c.y, c.x) = "Floor"
       /\ \A c \in Cells(call.grid) \ R :
            get(call.after, c.y, c.x) = get(call.grid, c.y, c.x)
       /\ DOMAIN call.after.data = DOMAIN call.grid.data

\* a placement with two door candidates, the second of which was chosen, over
\* a rectangle that held a Wall
C12_Witness ==
  /\ call.fn = "RectangularRoom.placeAt"
  /\ LET h == call.room.height
         w == call.room.width
         cands == {c \in NonCornerPerimeter(call.y, call.x, h, w) :
                     NextToFloor(call.grid, c)}
     IN /\ Cardinality(cands) = 2
        /\ \E c \in cands : get(call.after, c.y, c.x) = "Wall"

(***************************************************************************)
(* The first room of a level                                               *)
(***************************************************************************)
\* new LevelGenerator(10, 10, 1, [RectangleRoomGenerator(4, 4, 4, 4)])
FourByFourInit ==
  /\ lineage = "tile"
  /\ overlapRule \in {"FloorOrDoor", "FloorOnly"}
  /\ height = 10
  /\ width = 10
  /\ maxRooms = 1
  /\ roomGens = <<RectGen(4, 4, 4, 4, 0)>>
  /\ weights = DefaultWeights(roomGens, NoWeights)
  /\ rngKind \in {"any", "lcg"}
  /\ \E s \in 0..MaxSeed :
       /\ rngKind = "any" => s = 0
       /\ seed = [r \in RunIds |-> s]
  /\ Idle

\* the generators that make the first room only, and the generator of the
\* 4 x 4 rooms
FirstRoomInit == (Init /\ maxRooms <= 1) \/ FourByFourInit

SpecFirstRoom == FirstRoomInit /\ [][Next]_vars

\* the number of cells of the array that hold the tile e
CountOf(arr, e) == Cardinality({c \in Cells(arr) : get(arr, c.y, c.x) = e})

\* the array holds one walled, doorless h x w block at (y, x) and is Empty
\* elsewhere
DoorlessBlock(arr, y, x, h, w) ==
  \A c \in Cells(arr) :
    get(arr, c.y, c.x) = (IF c \in Interior(y, x, h, w) THEN "Floor"
                          ELSE IF c \in RectCells(y, x, h, w) THEN "Wall"
                          ELSE "Empty")

\* the grid with the Start and the End mark taken off: the two marked cells
\* read as the floor they are
Unmarked(arr) ==
  [arr EXCEPT !.data = [ix \in DOMAIN arr.data |->
                          IF arr.data[ix] \in {makeStart, makeEnd} THEN "Floor"
                          ELSE arr.data[ix]]]

\* C13: the first room, when it is a RectangularRoom, is placed without a
\* door: its perimeter is all Wall and its interior all Floor.  On a 10 x 10
\* grid with maxRooms = 1 and a generator of 4 x 4 rooms the level returned
\* holds exactly one 4 x 4 block of 12 Wall and 4 Floor cells, no Door, and
\* is Empty elsewhere.
C13_FirstRoomDoorless ==
  \A r \in RunIds :
    /\ (lineage = "tile" /\ nAdd[r] = 1 /\ room[r].kind = "rect" /\ added[r] = "true") =>
         DoorlessBlock(Unmarked(tiles[r]), position[r][1].y, position[r][1].x,
                       room[r].height, room[r].width)
    /\ (height = 10 /\ pc[r] \in {"return", "done"}) =>
         /\ \E y \in 0..6, x \in 0..6 : DoorlessBlock(Unmarked(tiles[r]), y, x, 4, 4)
         /\ CountOf(Unmarked(tiles[r]), "Wall") = 12
         /\ CountOf(Unmarked(tiles[r]), "Floor") = 4
         /\ CountOf(Unmarked(tiles[r]), "Door") = 0
         /\ CountOf(Unmarked(tiles[r]), "Empty") = 84

\* the 4 x 4 room was placed at the last offset of the 10 x 10 grid and the
\* level was returned
C13_Witness ==
  /\ height = 10
  /\ pc[1] = "done"
  /\ added[1] = "true"
  /\ room[1].height = 4
  /\ position[1] = <<Coord(5, 5)>>
  /\ get(tiles[1], 6, 6) = "Floor"

(***************************************************************************)
(* Direct calls of the methods of the template rooms                       *)
(***************************************************************************)
\* PreDungeons of height h and width w with at most MaxMarks floor cells
FloorGrids(h, w) ==
  {[height |-> h, width |-> w, data |-> [ix \in 0..(h * w - 1) |-> ix \in S]] :
     S \in Marks(MaxMarks, 0..(h * w - 1))}

\* templates of Tile: the cross, and a template with an Empty cell
TileTemplates ==
  {CrossRoom,
   parseTemplateRoom(<< <<"=", " ">>,
                        <<".", "=">>,
                        <<"#", "#">> >>)}

\* templates with external and internal doors
DoorTemplates ==
  {DoorTemplate_parseTemplateRoom(<< <<"#", "E", " ">>,
                                     <<"E", ".", "I">>,
                                     <<"#", "E", "#">> >>),
   DoorTemplate_parseTemplateRoom(<< <<"E", "E">>,
                                     <<".", "I">> >>)}

\* templates with hallway starts
HallTemplates ==
  {HallTemplate_parseTemplateRoom(<< <<"#", "^", "#">>,
                                     <<"<", ".", ">">>,
                                     <<" ", "v", "#">> >>),
   HallTemplate_parseTemplateRoom(<< <<"^", "<">>,
                                     <<".", ".">> >>)}

\* the rooms of each class of template room
TemplateRooms(kind) ==
  IF kind = "tiles"
  THEN {Room("template", b.height, b.width, 0, b) : b \in TileTemplates}
  ELSE IF kind = "doors"
  THEN {Room("doors", b.height, b.width, 0, b) : b \in DoorTemplates}
  ELSE {Room("hallways", b.height, b.width, m, b) :
          b \in HallTemplates, m \in 1..MaxHallway}

\* the grids a method of a template room of the class is called with
TemplateGrids(kind) ==
  IF kind = "hallways" THEN FloorGrids(FnDim, FnDim) ELSE TileGrids(FnDim, FnDim)

\* canPlaceAt of a template room of the class
Template_canPlaceAt(kind, rm, t, py, px) ==
  IF kind = "tiles" THEN TemplateRoom_canPlaceAt(rm, t, py, px)
  ELSE IF kind = "doors" THEN DoorTemplate_canPlaceAt(rm, t, py, px)
  ELSE HallTemplate_canPlaceAt(rm, t, py, px)

\* placeAt of a template room of the class
Template_placeAt(kind, rm, t, py, px) ==
  IF kind = "tiles" THEN TemplateRoom_placeAt(rm, t, py, px)
  ELSE IF kind = "doors" THEN DoorTemplate_placeAt(rm, t, py, px)
  ELSE HallTemplate_placeAt(rm, t, py, px)

\* the connector cells of the blueprint that placeAt opens: the doors it
\* places as Door, the hallway cells it places a hallray from
Template_opened(kind, rm, t, py, px) ==
  LET rect == areaCoords(Rectangle(0, 0, rm.height, rm.width))
  IN IF kind = "hallways" THEN HallTemplate_opened(rm, rect, t, py, px)
     ELSE {c \in Range(rect) :
             /\ get(rm.blueprint, c.y, c.x) = (IF kind = "tiles" THEN "Door" ELSE "ExternalDoor")
             /\ get(Template_placeAt(kind, rm, t, py, px), c.y + py, c.x + px) = "Door"}

\* the grid generate starts from is handed to placeAt of room #0
IsNew(kind, t) == t = NewGrid(IF kind = "hallways" THEN "hall" ELSE "tile", t.height, t.width)

\* a direct call of TemplateRoom.canPlaceAt of one of the three classes, at
\* an offset where the room lies in the grid
Call_TemplateRoom_canPlaceAt(kind) ==
  /\ call.fn = "none"
  /\ \E rm \in TemplateRooms(kind), t \in TemplateGrids(kind) :
       \E py \in 0..(FnDim - rm.height), px \in 0..(FnDim - rm.width) :
         call' = [fn |-> "TemplateRoom.canPlaceAt", kind |-> kind, grid |-> t,
                  room |-> rm, y |-> py, x |-> px,
                  out |-> Template_canPlaceAt(kind, rm, t, py, px), after |-> t]
  /\ UNCHANGED <<cfgVars, runVars, obsVars>>

\* a direct call of TemplateRoom.placeAt of one of the three classes, at an
\* offset canPlaceAt accepts or, as room #0, anywhere in the new grid
\* (out: the connectors the call opened)
Call_TemplateRoom_placeAt(kind) ==
  /\ call.fn = "none"
  /\ \E rm \in TemplateRooms(kind), t \in TemplateGrids(kind) :
       \E py \in 0..(FnDim - rm.height), px \in 0..(FnDim - rm.width) :
         /\ IsNew(kind, t) \/ Template_canPlaceAt(kind, rm, t, py, px)
         /\ call' = [fn |-> "TemplateRoom.placeAt", kind |-> kind, grid |-> t,
                     room |-> rm, y |-> py, x |-> px,
                     out |-> Template_opened(kind, rm, t, py, px),
                     after |-> Template_placeAt(kind, rm, t, py, px)]
  /\ UNCHANGED <<cfgVars, runVars, obsVars>>

TemplateNext ==
  \/ Call_TemplateRoom_canPlaceAt("tiles")
  \/ Call_TemplateRoom_canPlaceAt("doors")
  \/ Call_TemplateRoom_canPlaceAt("hallways")
  \/ Call_TemplateRoom_placeAt("tiles")
  \/ Call_TemplateRoom_placeAt("doors")
  \/ Call_TemplateRoom_placeAt("hallways")

SpecTemplate == FnInit /\ [][TemplateNext]_vars

\* the blueprint cells of the room of the call that hold one of the tiles ts
BlueprintCells(ts) ==
  {c \in Cells(call.room.blueprint) : get(call.room.blueprint, c.y, c.x) \in ts}

\* the grid cell under the blueprint cell c in the call
Under(c) == Coord(c.y + call.y, c.x + call.x)

\* the grid cell holds floor, or a door where the grid has tiles
Walkable(kind, t, c) ==
  IF kind = "hallways" THEN get(t, c.y, c.x) = TRUE
  ELSE get(t, c.y, c.x) \in {"Floor", "Door"}

\* some in-bounds orthogonal neighbour of the cell is floor
FloorNextTo(kind, t, c) ==
  \E n \in Neighbours(c) :
    /\ inBounds(t, n.y, n.x)
    /\ get(t, n.y, n.x) = (IF kind = "hallways" THEN TRUE ELSE "Floor")

\* the ray (y,x), (y,x)+dir, ... reaches, within the grid and in fewer than
\* maxLength steps, a cell with floor next to it
RayConnects(t, c, dir, maxLength) ==
  \E l \in 0..(maxLength - 1) :
    /\ \A k \in 0..l : inBounds(t, c.y + k * dir.y, c.x + k * dir.x)
    /\ FloorNextTo("hallways", t, Coord(c.y + l * dir.y, c.x + l * dir.x))

\* the blueprint cells that connect rooms: doors of a Tile template, external
\* doors, hallway starts
Connectors(kind) ==
  IF kind = "tiles" THEN BlueprintCells({"Door"})
  ELSE IF kind = "doors" THEN BlueprintCells({"ExternalDoor"})
  ELSE BlueprintCells({"HallwayNorth", "HallwaySouth", "HallwayWest", "HallwayEast"})

\* the connector c of the room of the call is a valid connection in the grid t
ValidConnection(kind, t, c) ==
  IF kind = "hallways"
  THEN RayConnects(t, Under(c),
                   HallTemplate_getHallwayDir(get(call.room.blueprint, c.y, c.x)),
                   call.room.maxHallwayLength)
  ELSE FloorNextTo(kind, t, Under(c))

\* C14: TemplateRoom.canPlaceAt returns true if and only if no non-Empty
\* blueprint cell lies on a walkable grid cell and at least one connector
\* (external door, hallway start) is a valid connection: next to Floor, or the
\* start of a hallray that reaches floor in fewer than maxHallwayLength
\* steps.  The grid is not modified.
C14_TemplateCanPlaceAtIff ==
  call.fn = "TemplateRoom.canPlaceAt" =>
    /\ call.out <=>
         (/\ \A c \in Cells(call.room.blueprint) \ BlueprintCells({"Empty"}) :
                ~Walkable(call.kind, call.grid, Under(c))
          /\ \E c \in Connectors(call.kind) : ValidConnection(call.kind, call.grid, c))
    /\ call.after = call.grid

\* C15: after TemplateRoom.placeAt in the tile lineage the cell under every
\* external door of the blueprint is Door if it was next to a Floor cell
\* before the call and Wall otherwise; the cells under wall, floor and
\* internal-door cells hold Wall, Floor and Door; the cells under Empty
\* blueprint cells and outside the bounding box are unchanged.  Placed as
\* room #0, on the new grid, every external door becomes Wall.
C15_TemplatePlaceAtResult ==
  (call.fn = "TemplateRoom.placeAt" /\ call.kind \in {"tiles", "doors"}) =>
    LET tileAt(c) == get(call.after, Under(c).y, Under(c).x)
    IN /\ \A c \in Connectors(call.kind) :
            tileAt(c) = (IF FloorNextTo(call.kind, call.grid, Under(c))
                         THEN "Door" ELSE "Wall")
       /\ \A c \in BlueprintCells({"Wall"}) : tileAt(c) = "Wall"
       /\ \A c \in BlueprintCells({"Floor"}) : tileAt(c) = "Floor"
       /\ \A c \in BlueprintCells({"InternalDoor"}) : tileAt(c) = "Door"
       /\ \A g \in Cells(call.grid) :
            (\A c \in Cells(call.room.blueprint) \ BlueprintCells({"Empty"}) : Under(c) # g)
              => get(call.after, g.y, g.x) = get(call.grid, g.y, g.x)
       /\ DOMAIN call.after.data = DOMAIN call.grid.data
       /\ IsNew(call.kind, call.grid) =>
            \A c \in Connectors(call.kind) : tileAt(c) = "Wall"

\* a template with external and internal doors was placed over a Wall: one
\* external door was opened next to Floor, another was walled
C15_Witness ==
  /\ call.fn = "TemplateRoom.placeAt"
  /\ call.kind = "doors"
  /\ BlueprintCells({"InternalDoor"}) # {}
  /\ \E c, d \in Connectors("doors") :
       /\ get(call.after, Under(c).y, Under(c).x) = "Door"
       /\ get(call.after, Under(d).y, Under(d).x) = "Wall"
       /\ get(call.grid, Under(d).y, Under(d).x) = "Wall"

\* C16: the connectors TemplateRoom.placeAt opens (external doors placed as
\* Door, hallway starts a corridor is placed from) are exactly the connectors
\* that were valid connections in the grid as it was before the call; none is
\* validated by floor the same call placed.
C16_OpenedWereValid ==
  call.fn = "TemplateRoom.placeAt" =>
    call.out = {c \in Connectors(call.kind) : ValidConnection(call.kind, call.grid, c)}

(***************************************************************************)
(* Direct calls of the methods of PreDungeon and of the hallray functions  *)
(***************************************************************************)
\* the predungeons the functions are called with: squares, and strips of two
\* rows that are long enough for rays of 5, 6 and 7 steps
RayGrids == FloorGrids(FnDim, FnDim) \cup FloorGrids(2, StripLen)

\* the unit directions
Dirs == {[y |-> -1, x |-> 0], [y |-> 1, x |-> 0], [y |-> 0, x |-> -1], [y |-> 0, x |-> 1]}

\* the values of maxLength: the default of parseTemplateRoom, 2, and 6
MaxLengths == {1, 2, 6}

\* a direct call of PreDungeon.isFloorAdjacent at an in-bounds coordinate
Call_isFloorAdjacent ==
  /\ call.fn = "none"
  /\ \E pd \in RayGrids :
       \E c \in Cells(pd) :
         call' = [fn |-> "isFloorAdjacent", grid |-> pd, y |-> c.y, x |-> c.x,
                  out |-> isFloorAdjacent(pd, c.y, c.x), after |-> pd]
  /\ UNCHANGED <<cfgVars, runVars, obsVars>>

\* a direct call of hallrayLength from an in-bounds coordinate
Call_hallrayLength ==
  /\ call.fn = "none"
  /\ \E pd \in RayGrids, dir \in Dirs :
       \E c \in Cells(pd) :
         call' = [fn |-> "hallrayLength", grid |-> pd, y |-> c.y, x |-> c.x, dir |-> dir,
                  out |-> hallrayLength(pd, c.y, c.x, dir), after |-> pd]
  /\ UNCHANGED <<cfgVars, runVars, obsVars>>

\* a direct call of isValidHallray from an in-bounds coordinate
Call_isValidHallray ==
  /\ call.fn = "none"
  /\ \E pd \in RayGrids, dir \in Dirs, maxLength \in MaxLengths :
       \E c \in Cells(pd) :
         call' = [fn |-> "isValidHallray", grid |-> pd, y |-> c.y, x |-> c.x, dir |-> dir,
                  maxLength |-> maxLength,
                  out |-> isValidHallray(pd, c.y, c.x, dir, maxLength), after |-> pd]
  /\ UNCHANGED <<cfgVars, runVars, obsVars>>

\* the corridor a room places from a hallway start whose hallray is valid:
\* placeHallray(predungeon, y, x, dir, hallrayLength(predungeon, y, x, dir))
Call_placeHallray ==
  /\ call.fn = "none"
  /\ \E pd \in RayGrids, dir \in Dirs, maxLength \in MaxLengths :
       \E c \in Cells(pd) :
         /\ isValidHallray(pd, c.y, c.x, dir, maxLength)
         /\ call' = [fn |-> "placeHallray", grid |-> pd, y |-> c.y, x |-> c.x, dir |-> dir,
                     maxLength |-> maxLength,
                     out |-> hallrayLength(pd, c.y, c.x, dir),
                     after |-> placeHallray(pd, c.y, c.x, dir,
                                            hallrayLength(pd, c.y, c.x, dir))]
  /\ UNCHANGED <<cfgVars, runVars, obsVars>>

\* a direct call of PreDungeon.isWall at an in-bounds coordinate
Call_isWall ==
  /\ call.fn = "none"
  /\ \E pd \in RayGrids :
       \E c \in Cells(pd) :
         call' = [fn |-> "isWall", grid |-> pd, y |-> c.y, x |-> c.x,
                  out |-> isWall(pd, c.y, c.x), after |-> pd]
  /\ UNCHANGED <<cfgVars, runVars, obsVars>>

\* a direct call of PreDungeon.setFloor at an in-bounds coordinate
Call_setFloor ==
  /\ call.fn = "none"
  /\ \E pd \in RayGrids :
       \E c \in Cells(pd) :
         call' = [fn |-> "setFloor", grid |-> pd, y |-> c.y, x |-> c.x,
                  out |-> Undefined, after |-> setFloor(pd, c.y, c.x)]
  /\ UNCHANGED <<cfgVars, runVars, obsVars>>

\* a direct call of PreDungeon.setWall at an in-bounds coordinate
Call_setWall ==
  /\ call.fn = "none"
  /\ \E pd \in RayGrids :
       \E c \in Cells(pd) :
         call' = [fn |-> "setWall", grid |-> pd, y |-> c.y, x |-> c.x,
                  out |-> Undefined, after |-> setWall(pd, c.y, c.x)]
  /\ UNCHANGED <<cfgVars, runVars, obsVars>>

HallrayNext ==
  \/ Call_isFloorAdjacent
  \/ Call_hallrayLength
  \/ Call_isValidHallray
  \/ Call_placeHallray
  \/ Call_isWall
  \/ Call_setFloor
  \/ Call_setWall

SpecHallray == FnInit /\ [][HallrayNext]_vars

\* the cell of the ray of the call that is l steps from its start
RayCell(l) == Coord(call.y + l * call.dir.y, call.x + l * call.dir.x)

\* the ray of the call is in bounds up to step l, where it has floor next to it
ReachesAt(l) ==
  /\ \A k \in 0..l : inBounds(call.grid, RayCell(k).y, RayCell(k).x)
  /\ FloorNextTo("hallways", call.grid, RayCell(l))

\* the steps at which the ray of the call has floor next to it; no ray has
\* more in-bounds cells than the grid has rows and columns
Reaches == {l \in 0..(call.grid.height + call.grid.width) : ReachesAt(l)}

\* C17: hallrayLength returns the least l >= 0 such that the ray is in bounds
\* up to step l and the cell at step l is orthogonally adjacent to a floor
\* cell, and Infinity if and only if there is no such l; it does not modify
\* the grid.
C17_HallrayLength ==
  call.fn = "hallrayLength" =>
    /\ call.out = Infinity <=> Reaches = {}
    /\ call.out # Infinity =>
         /\ call.out \in Reaches
         /\ \A l \in Reaches : call.out <= l
    /\ call.after = call.grid

\* C18: isValidHallray is true if and only if hallrayLength < maxLength: a
\* ray whose nearest floor-adjacent cell is fewer than maxLength steps away
\* (5 steps for maxLength = 6) is accepted, one whose nearest floor-adjacent
\* cell is maxLength steps away or more (6, 7), or that reaches none, is
\* rejected; every corridor a room places has at most maxLength floor cells.
C18_ValidHallray ==
  /\ call.fn = "isValidHallray" =>
       /\ call.out <=> hallrayLength(call.grid, call.y, call.x, call.dir) < call.maxLength
       /\ call.out <=> (\E l \in Reaches : l < call.maxLength)
  /\ call.fn = "placeHallray" =>
       Cardinality({c \in Cells(call.grid) :
                      isFloor(call.after, c.y, c.x) /\ ~isFloor(call.grid, c.y, c.x)})
         <= call.maxLength

\* C19: for every in-bounds coordinate of a PreDungeon, the last row and the
\* last column included, isFloorAdjacent is true if and only if one of the
\* in-bounds orthogonal neighbours is floor.
C19_FloorAdjacent ==
  call.fn = "isFloorAdjacent" =>
    (call.out <=> FloorNextTo("hallways", call.grid, Coord(call.y, call.x)))

(***************************************************************************)
(* Direct calls of discreteSample                                          *)
(***************************************************************************)
\* the weight vectors: at least one weight, at least one of them positive
WeightVectors ==
  {ws \in UNION {[1..n -> 0..MaxWeight] : n \in 1..MaxWeights} :
     \E k \in DOMAIN ws : ws[k] > 0}

\* seeds of the LCG; the first draw from 634785765 is exactly 0
SampleSeeds == (0..MaxSeed) \cup {634785765}

\* the draws rng.next() may return to discreteSample: the draws of an
\* arbitrary generator at which u * total passes a multiple of 1/2, and the
\* first draw of the LCG
SampleDraws(ws) ==
  DrawsFor(SumTo(ws, Len(ws))) \cup {LCGnext(sd) : sd \in SampleSeeds}

\* a direct call of discreteSample(rng, weights), as chooseRoom makes it
Call_discreteSample ==
  /\ call.fn = "none"
  /\ \E ws \in WeightVectors :
       \E u \in SampleDraws(ws) :
         call' = [fn |-> "discreteSample", weights |-> ws, u |-> u,
                  out |-> discreteSample(u, ws)]
  /\ UNCHANGED <<cfgVars, runVars, obsVars>>

SampleNext == Call_discreteSample

SpecSample == FnInit /\ [][SampleNext]_vars

\* C20: discreteSample returns the first index at which the running sum of
\* the weights is >= p = rng.next() * total; with the weights [0, 0, 5] it
\* returns index 2 for every draw, a draw of exactly 0 included; the index is
\* within 0..weights.length-1 and is never the index of a zero weight.
C20_DiscreteSample ==
  call.fn = "discreteSample" =>
    LET ws == call.weights
        p == ScaleCeil(call.u, SumTo(ws, Len(ws)))
    IN /\ call.out \in 0..(Len(ws) - 1)
       /\ SumTo(ws, call.out + 1) >= p
       /\ \A k \in 0..(call.out - 1) : SumTo(ws, k + 1) < p
       /\ ws = <<0, 0, 5>> => call.out = 2
       /\ ws[call.out + 1] > 0

(***************************************************************************)
(* Direct calls of the LCG                                                 *)
(***************************************************************************)
\* the 32-bit seeds an LCG is constructed with: those around 0 and around
\* -c / a, and the largest and smallest but one
LcgSeeds == (-SeedSpan..SeedSpan) \cup {LcgMminus1, -LcgMminus1, LcgMminus1 \div 2}

\* new LCG(seed)
New_LCG ==
  /\ call.fn = "none"
  /\ \E sd \in LcgSeeds :
       call' = [fn |-> "LCG", seed0 |-> sd, prev |-> sd, seed |-> sd, n |-> 0]
  /\ UNCHANGED <<cfgVars, runVars, obsVars>>

\* LCG.next(): the state is replaced and returned divided by m (the record
\* keeps the numerator, the new state)
LCG_next ==
  /\ call.fn = "LCG"
  /\ call.n < MaxDraws
  /\ call' = [call EXCEPT !.prev = call.seed, !.seed = LCGnext(call.seed), !.n = @ + 1]
  /\ UNCHANGED <<cfgVars, runVars, obsVars>>

LcgNext == New_LCG \/ LCG_next

SpecLcg == FnInit /\ [][LcgNext]_vars

\* numbers modulo 2^32 as <<bit 31, the 31 low bits>>
Word(s) == IF s >= 0 THEN <<0, s>> ELSE <<1, (s + LcgMminus1) + 1>>

\* (a + b) mod 2^32
WordAdd(a, b) ==
  LET carry == IF a[2] > LcgMminus1 - b[2] THEN 1 ELSE 0
  IN <<(a[1] + b[1] + carry) % 2, AddMod(a[2], b[2])>>

RECURSIVE WordMul(_, _)
\* (a * k) mod 2^32 for k >= 0, by doubling
WordMul(a, k) ==
  IF k = 0 THEN <<0, 0>>
  ELSE LET rest == WordMul(WordAdd(a, a), k \div 2)
       IN IF k % 2 = 1 THEN WordAdd(a, rest) ELSE rest

\* C21: for every 32-bit seed, negative seeds included, LCG.next() replaces
\* the state by (seed * 1664525 + 1013904223) mod 2^32 and returns it divided
\* by the modulus: the value returned v satisfies 0 <= v < 1 (the state is an
\* integer from 0 to the modulus less one) after any number of draws.
C21_LcgNext ==
  (call.fn = "LCG" /\ call.n > 0) =>
    /\ call.seed \in 0..LcgMminus1
    /\ Word(call.seed) = WordAdd(WordMul(Word(call.prev), LcgA), Word(LcgC))

(***************************************************************************)
(* Direct calls of the room generators                                     *)
(***************************************************************************)
\* the generators RectangleRoomGenerator(minHeight, maxHeight, minWidth,
\* maxWidth) with 2 <= min <= max <= MaxSide
SideRanges == {r \in (2..MaxSide) \X (2..MaxSide) : r[1] <= r[2]}

\* a direct call of the RoomGen a RectangleRoomGenerator returns, with the two
\* draws it makes; rule tells the version: Math.floor ("FloorOrDoor", and the
\* hallway lineage) or Math.ceil ("FloorOnly")
Call_RectangleRoomGenerator ==
  /\ call.fn = "none"
  /\ \E rule \in {"FloorOrDoor", "FloorOnly"}, hs \in SideRanges, ws \in SideRanges :
       LET gen == RectGen(hs[1], hs[2], ws[1], ws[2], 0)
       IN \E u1 \in DrawsFor(hs[2] - hs[1]), u2 \in DrawsFor(ws[2] - ws[1]) :
            call' = [fn |-> "RectangleRoomGenerator", rule |-> rule, gen |-> gen,
                     u1 |-> u1, u2 |-> u2,
                     out |-> RectangleRoomGenerator(rule, gen, u1, u2)]
  /\ UNCHANGED <<cfgVars, runVars, obsVars>>

RoomGenNext == Call_RectangleRoomGenerator

SpecRoomGen == FnInit /\ [][RoomGenNext]_vars

\* C22: RectangleRoomGenerator produces only rooms with minHeight <= height
\* <= maxHeight and minWidth <= width <= maxWidth, and every height and width
\* of the ranges, the maximum included, is produced by some draw in [0,1).
C22_GeneratorRange ==
  call.fn = "RectangleRoomGenerator" =>
    LET g == call.gen
    IN /\ call.out.height \in g.minHeight..g.maxHeight
       /\ call.out.width \in g.minWidth..g.maxWidth
       /\ \A k \in g.minHeight..g.maxHeight :
            \E u \in DrawsFor(g.maxHeight - g.minHeight) :
              RectangleRoomGenerator(call.rule, g, u, u).height = k
       /\ \A k \in g.minWidth..g.maxWidth :
            \E u \in DrawsFor(g.maxWidth - g.minWidth) :
              RectangleRoomGenerator(call.rule, g, u, u).width = k

(***************************************************************************)
(* Direct calls of Rectangle.perimeterCoords                               *)
(***************************************************************************)
\* the rectangles new Rectangle(y, x, height, width) with height and width
\* from 2 to MaxSide, at the offsets 0..2
Rectangles ==
  {Rectangle(y, x, h, w) : y \in 0..2, x \in 0..2, h \in 2..MaxSide, w \in 2..MaxSide}

\* a direct call of rect.perimeterCoords(skip); out is the sequence of the
\* coordinates yielded
Call_perimeterCoords ==
  /\ call.fn = "none"
  /\ \E rect \in Rectangles, skip \in {0, 1} :
       call' = [fn |-> "perimeterCoords", rect |-> rect, skip |-> skip,
                out |-> perimeterCoords(rect, skip)]
  /\ UNCHANGED <<cfgVars, runVars, obsVars>>

RectangleNext == Call_perimeterCoords

SpecRectangle == FnInit /\ [][RectangleNext]_vars

\* the edge of the rectangle a non-corner border cell lies on, counted
\* clockwise from the top edge
EdgeOf(rect, c) ==
  IF c.y = rect.y /\ rect.x < c.x /\ c.x < rect.x + rect.width - 1 THEN 0
  ELSE IF c.x = rect.x + rect.width - 1 /\ c.y # rect.y + rect.height - 1 THEN 1
  ELSE IF c.y = rect.y + rect.height - 1 THEN 2
  ELSE 3

\* c comes before d when the border is walked clockwise from the top-left
\* corner
ClockwiseBefore(rect, c, d) ==
  \/ EdgeOf(rect, c) < EdgeOf(rect, d)
  \/ /\ EdgeOf(rect, c) = EdgeOf(rect, d)
     /\ \/ (EdgeOf(rect, c) = 0 /\ c.x < d.x)
        \/ (EdgeOf(rect, c) = 1 /\ c.y < d.y)
        \/ (EdgeOf(rect, c) = 2 /\ c.x > d.x)
        \/ (EdgeOf(rect, c) = 3 /\ c.y > d.y)

\* perimeterCoords(1) yields exactly the non-corner border cells, each once,
\* in clockwise order; 12 cells for a 5 x 5 rectangle
NonCornersClockwise ==
  LET rect == call.rect
      out == call.out
  IN /\ Range(out) = NonCornerPerimeter(rect.y, rect.x, rect.height, rect.width)
     /\ \A j, k \in DOMAIN out : j < k => ClockwiseBefore(rect, out[j], out[k])
     /\ (rect.height = 5 /\ rect.width = 5) => Len(out) = 12

\* C23: for every rectangle with height >= 2 and width >= 2
\* perimeterCoords(1) yields exactly the border cells that are not corners,
\* each exactly once, in clockwise order (top edge left to right, right edge
\* top to bottom, bottom edge right to left, left edge bottom to top); when
\* the width is at least 3 the first cell is the one immediately right of the
\* top-left corner (a rectangle of width 2 has no non-corner cell on its top
\* edge); for a 5 x 5 rectangle this is 12 cells.
C23_PerimeterCoords ==
  (call.fn = "perimeterCoords" /\ call.skip = 1) =>
    /\ NonCornersClockwise
    /\ call.rect.width >= 3 => call.out[1] = Coord(call.rect.y, call.rect.x + 1)

\* C23 as stated: the sequence always starts with the cell immediately right
\* of the top-left corner
C23_StartsRightOfCorner ==
  (call.fn = "perimeterCoords" /\ call.skip = 1) =>
    /\ NonCornersClockwise
    /\ call.out # <<>> => call.out[1] = Coord(call.rect.y, call.rect.x + 1)

\* perimeterCoords(1) of a 5 x 5 rectangle away from the origin
C23_Witness ==
  /\ call.fn = "perimeterCoords"
  /\ call.skip = 1
  /\ call.rect = Rectangle(1, 2, 5, 5)
  /\ Len(call.out) = 12
  /\ call.out[1] = Coord(1, 3)
  /\ call.out[12] = Coord(2, 2)

(***************************************************************************)
(* Direct calls of LevelGenerator.addRandomStartEnd                        *)
(***************************************************************************)
\* a direct call of addRandomStartEnd(rng, tiles) on a grid with at most
\* MaxMarks cells that are not Empty; out tells whether the call returned
Call_addRandomStartEnd ==
  /\ call.fn = "none"
  /\ \E t \in TileGrids(FnDim, FnDim) :
       \E u1 \in ChoiceDraws(Len(walkablesOf(t))),
          u2 \in ChoiceDraws(Len(walkablesOf(t)) - 1) :
         LET r == addRandomStartEnd(u1, u2, t)
         IN call' = [fn |-> "addRandomStartEnd", grid |-> t, u1 |-> u1, u2 |-> u2,
                     out |-> ~r.threw, after |-> r.tiles]
  /\ UNCHANGED <<cfgVars, runVars, obsVars>>

StartEndNext == Call_addRandomStartEnd

SpecStartEnd == FnInit /\ [][StartEndNext]_vars

\* the cells of the grid arr that hold the tile e
CellsOf(arr, e) == {c \in Cells(arr) : get(arr, c.y, c.x) = e}

\* C24: addRandomStartEnd marks exactly two cells, at different coordinates
\* and both walkable before the call, as Start and End, and changes no other
\* cell; when the grid holds fewer than two walkable cells the call fails and
\* no cell is marked as Start or End.
C24_StartEnd ==
  call.fn = "addRandomStartEnd" =>
    LET before == WalkableCells("tile", call.grid)
        starts == CellsOf(call.after, makeStart)
        ends == CellsOf(call.after, makeEnd)
    IN IF Cardinality(before) >= 2
       THEN /\ call.out
            /\ Cardinality(starts) = 1 /\ Cardinality(ends) = 1
            /\ starts \cap ends = {}
            /\ starts \cup ends \subseteq before
            /\ \A c \in Cells(call.grid) \ (starts \cup ends) :
                 get(call.after, c.y, c.x) = get(call.grid, c.y, c.x)
       ELSE /\ ~call.out
            /\ starts = {} /\ ends = {}

(***************************************************************************)
(* Generators constructed from configurations that are not valid           *)
(***************************************************************************)
\* blueprints whose lines differ in length, split into rows of characters
RaggedBlueprints ==
  { << <<"#", "#", "#", "#">>, <<"#", ".", ".">>, <<"#", "#", "#", "#">> >>,
    << <<"#", "#", "#">>, <<"#", ".", ".", "#">>, <<"#", "#", "#">> >> }

\* generator lists and weights: no generator, no weight, weights that are
\* all zero, and (tile lineage) a template parsed from a ragged blueprint
ConfigsNotValid(lin) ==
  LET gen == RectGen(3, 3, 3, 4, IF lin = "hall" THEN 1 ELSE 0)
  IN { [gens |-> <<>>, weights |-> NoWeights],
       [gens |-> <<gen>>, weights |-> Weights(<<>>)],
       [gens |-> <<gen>>, weights |-> Weights(<<0>>)],
       [gens |-> <<gen, gen>>, weights |-> Weights(<<0, 0>>)] }
     \cup (IF lin = "hall" THEN {}
           ELSE {[gens |-> <<TemplateGen(parseTemplateRoom(b))>>, weights |-> NoWeights] :
                   b \in RaggedBlueprints})

\* grid heights and widths, among them a negative one and zero
ConfigDims == {-1, 0, MaxDim}

\* the state after new LevelGenerator(...) / new PreDungeonGen(...) with
\* arguments of which at least one is not valid; the constructors check
\* nothing, and parseTemplateRoom takes the width from the first line
ConfigInit ==
  /\ lineage \in {"tile", "hall"}
  /\ overlapRule = "FloorOrDoor"
  /\ height \in ConfigDims
  /\ width \in ConfigDims
  /\ maxRooms \in 1..2
  /\ \E c \in ConfigsNotValid(lineage) \cup
              {[gens |-> <<RectGen(3, 3, 3, 4, IF lineage = "hall" THEN 1 ELSE 0)>>,
                weights |-> NoWeights]} :
       /\ roomGens = c.gens
       /\ weights = DefaultWeights(c.gens, c.weights)
       /\ c \in ConfigsNotValid(lineage) \/ height <= 0 \/ width <= 0
  /\ rngKind = "any"
  /\ seed = [r \in RunIds |-> 0]
  /\ Idle

\* generate called on generators constructed from configurations that are
\* not valid
SpecConfig == ConfigInit /\ [][Next]_vars

\* the configuration is one the specification calls a configuration error
ConfigurationError ==
  \/ roomGens = <<>>
  \/ weights = <<>>
  \/ \A k \in DOMAIN weights : weights[k] <= 0
  \/ height <= 0
  \/ width <= 0
  \/ \E k \in DOMAIN roomGens :
       /\ roomGens[k].kind = "template"
       /\ roomGens[k].blueprint \in {parseTemplateRoom(b) : b \in RaggedBlueprints}

\* an element of the grid has been written: the PreDungeon constructor fills
\* the whole array, comprehension sets the elements one by one
CellWritten(arr) ==
  IF lineage = "hall" THEN DOMAIN arr.data # {}
  ELSE \E ix \in DOMAIN arr.data : arr.data[ix] # Undefined

\* C25: a configuration with an empty RoomGen list, an empty or all
\* non-positive weight list, a zero or negative grid height or width, or a
\* template blueprint with ragged lines is rejected before any grid cell is
\* written, and generate never returns a level for it.
C25_ConfigurationRejected ==
  ConfigurationError =>
    \A r \in RunIds :
      /\ ~CellWritten(tiles[r])
      /\ pc[r] # "done"

(***************************************************************************)
(* Direct calls of RectangleRoom.placeAt (hallway lineage)                 *)
(***************************************************************************)
\* a direct call of RectangleRoom.placeAt, at an offset canPlaceAt accepts,
\* on a predungeon one row and one column larger than FnDim with at most
\* MaxMarks floor cells; c, dir and len are the hallway start chosen, its
\* direction and the length hallrayLength returns for it
Call_RectangleRoom_placeAt ==
  /\ call.fn = "none"
  /\ \E pd \in FloorGrids(FnDim + 1, FnDim + 1), sz \in RoomSizes, m \in 1..MaxHallway :
       \E py \in 0..(FnDim + 1 - sz[1]), px \in 0..(FnDim + 1 - sz[2]) :
         LET rm == Room("rect", sz[1], sz[2], m, NoBlueprint)
             rect == Rectangle(py, px, sz[1], sz[2])
             starts == validHallwayStarts(rm, pd, py, px)
         IN /\ RectangleRoom_canPlaceAt(rm, pd, py, px)
            /\ \E u \in ChoiceDraws(Len(starts)) :
                 LET c == randomChoice(u, starts)
                     dir == getHallwayDir(rect, c)
                 IN call' = [fn |-> "RectangleRoom.placeAt", grid |-> pd, room |-> rm,
                             y |-> py, x |-> px, c |-> c, dir |-> dir,
                             len |-> hallrayLength(pd, c.y, c.x, dir), out |-> TRUE,
                             after |-> RectangleRoom_placeAt(rm, u, pd, py, px)]
  /\ UNCHANGED <<cfgVars, runVars, obsVars>>

HallRoomNext == Call_RectangleRoom_placeAt

SpecHallRoom == FnInit /\ [][HallRoomNext]_vars

\* the cells c, c + dir, ..., c + len * dir of the hallway of the call
HallwayCells ==
  {Coord(call.c.y + k * call.dir.y, call.c.x + k * call.dir.x) : k \in 0..call.len}

\* C26: RectangleRoom.placeAt at an offset where canPlaceAt held opens
\* exactly one hallway: the cells c, c + dir, ..., c + len * dir become floor,
\* where c is a non-corner perimeter cell of the room, dir points out of the
\* room from c, and len is hallrayLength(c, dir) on the grid before the call;
\* the last cell of the hallway is orthogonally adjacent to a cell that was
\* floor before the call; apart from the hallway and the interior of the room
\* no cell of the grid changes.
C26_OneHallway ==
  call.fn = "RectangleRoom.placeAt" =>
    LET h == call.room.height
        w == call.room.width
        c == call.c
        last == Coord(c.y + call.len * call.dir.y, c.x + call.len * call.dir.x)
        opened == HallwayCells \cup Interior(call.y, call.x, h, w)
    IN /\ c \in NonCornerPerimeter(call.y, call.x, h, w)
       /\ call.dir \in Dirs
       /\ Coord(c.y + call.dir.y, c.x + call.dir.x) \notin RectCells(call.y, call.x, h, w)
       /\ call.len = hallrayLength(call.grid, c.y, c.x, call.dir)
       /\ call.len < call.room.maxHallwayLength
       /\ HallwayCells \subseteq Cells(call.grid)
       /\ FloorNextTo("hallways", call.grid, last)
       /\ DOMAIN call.after.data = DOMAIN call.grid.data
       /\ \A d \in Cells(call.grid) :
            get(call.after, d.y, d.x) = (d \in opened \/ get(call.grid, d.y, d.x))

(***************************************************************************)
(* Rooms of the tile lineage stay sealed, and doors lead somewhere         *)
(***************************************************************************)
\* every generator of the configuration is a RectangleRoomGenerator
RectangularRooms == \A k \in DOMAIN roomGens : roomGens[k].kind = "rect"

\* the cell lies in the first or last row or column of the grid
OnBorder(arr, c) ==
  c.y = 0 \/ c.y = arr.height - 1 \/ c.x = 0 \/ c.x = arr.width - 1

\* no Floor cell of the grid lies on its border, and the four neighbours of
\* every Floor cell are Floor, Wall or Door
Sealed(arr) ==
  \A c \in Cells(arr) :
    get(arr, c.y, c.x) = "Floor" =>
      /\ ~OnBorder(arr, c)
      /\ \A n \in Neighbours(c) : get(arr, n.y, n.x) \in {"Floor", "Wall", "Door"}

\* C27: in the tile lineage with RectangularRoom generators, after every
\* room placement (and in the level returned) no Floor cell lies on the grid
\* border and no Floor cell is orthogonally adjacent to an Empty cell: each
\* of the four neighbours of a Floor cell is Floor, Wall or Door.
C27_RoomsSealed ==
  \A r \in Started :
    (lineage = "tile" /\ RectangularRooms) => Sealed(Unmarked(tiles[r]))

\* three rooms have been placed, the last two through a door, one of them
\* over the wall of an earlier room
C27_Witness ==
  /\ lineage = "tile" /\ RectangularRooms
  /\ nAdd[1] = 3 /\ added[1] = "true" /\ pc[1] = "return"
  /\ CountOf(tiles[1], "Door") >= 2
  /\ \E c \in Cells(tiles[1]) :
       get(prevTiles[1], c.y, c.x) = "Wall" /\ get(tiles[1], c.y, c.x) = "Floor"

\* c is a Door with Floor on two opposite sides
ThroughDoor(arr, c) ==
  \/ (get(arr, c.y - 1, c.x) = "Floor" /\ get(arr, c.y + 1, c.x) = "Floor")
  \/ (get(arr, c.y, c.x - 1) = "Floor" /\ get(arr, c.y, c.x + 1) = "Floor")

\* C28: in the tile lineage with RectangularRoom generators of height and
\* width >= 3, after every room placement, and after all later placements,
\* every Door cell has Floor cells on two opposite sides.
C28_DoorsLeadThrough ==
  \A r \in Started :
    (lineage = "tile" /\ RoomsAtLeast3) =>
      LET t == Unmarked(tiles[r])
      IN \A c \in Cells(t) :
           get(t, c.y, c.x) = "Door" => (inBounds(t, c.y - 1, c.x - 1)
                                         /\ inBounds(t, c.y + 1, c.x + 1)
                                         /\ ThroughDoor(t, c))

\* a door placed with the second room is still a through door after the
\* third room has been placed through a door of its own
C28_Witness ==
  /\ lineage = "tile" /\ RoomsAtLeast3
  /\ nAdd[1] = 3 /\ added[1] = "true" /\ pc[1] = "return"
  /\ \E c \in Cells(tiles[1]) :
       /\ get(prevTiles[1], c.y, c.x) = "Door" /\ get(tiles[1], c.y, c.x) = "Door"
       /\ ThroughDoor(tiles[1], c)
  /\ CountOf(tiles[1], "Door") > CountOf(prevTiles[1], "Door")

====
